---- MODULE Spec2Model ----
(***************************************************************************)
(* Verification model of the aware-eas alert-caching simulator:            *)
(* the four cache policies (LRU, TTLOnly, PriorityFresh, PAFTinyLFU), the  *)
(* count-min frequency sketch and the fixed-step simulation engine         *)
(* (runSimulation: arrivals, retries, queries, push decision, timeline).   *)
(*                                                                         *)
(* Numbers.  Times are integer seconds.  JavaScript doubles that the code  *)
(* only compares are kept as scaled integers: a PriorityFresh score is     *)
(* held as 20 * FreshScale * score, so that the urgency weights 1.5 and 0.5 *)
(* and exp(-age/600) (rounded to 1/FreshScale) are integers.  A value that *)
(* can be NaN is a record [nan, v]; every comparison with NaN is false, as *)
(* in IEEE-754.                                                            *)
(***************************************************************************)
EXTENDS Integers, Sequences, FiniteSets, TLC

VARIABLES
  pol,      \* the cache policy object under test (policy-level specification)
  now,      \* the time passed to the policy calls (non-decreasing)
  last,     \* the last policy call: its arguments, result and pre-state
  hashOf,   \* the sketch hash of every key (a fixed function of the key)
  run,      \* the state of one runSimulation call (engine specification)
  run2,     \* a second call of runSimulation with the same options
  tape,     \* the steps of the first call: state before, and draws
  sk,       \* a frequency sketch under test and the calls made on it
  batch,    \* an orchestrator call: its loop position and collected runs
  pfm,      \* a PriorityForecastModel under test and the last vector built
  synth     \* a synthAlerts call: the alerts pushed and its threads map

vars == <<pol, now, last, hashOf, run, run2, tape, sk, batch, pfm, synth>>

(***************************************************************************)
(* Bounds of the model                                                     *)
(***************************************************************************)
MaxCap == 2          \* capacities 1..MaxCap are constructed
MaxNow == 3          \* policy-level calls use times 0..MaxNow
MaxCount == 3        \* policy-level calls stop once a sketch counter reaches this
SketchWidth == 2     \* counters per sketch row (4096 in PAFTinyLFUCache)
MaxOrder == 3        \* policy-level puts stop once the order list is this long

(***************************************************************************)
(* Sequence helpers: Array.indexOf / splice / shift and the insertion-     *)
(* ordered Map<string, Alert>                                              *)
(***************************************************************************)
RECURSIVE IndexFrom(_, _, _)
IndexFrom(s, x, i) ==
  IF i > Len(s) THEN 0
  ELSE IF s[i] = x THEN i ELSE IndexFrom(s, x, i + 1)

\* Array.prototype.indexOf, 1-based; 0 when absent (-1 in the code)
IndexOf(s, x) == IndexFrom(s, x, 1)

\* splice(idx, 1)
RemoveAt(s, i) == [j \in 1..(Len(s) - 1) |-> IF j < i THEN s[j] ELSE s[j + 1]]

\* const idx = order.indexOf(id); if (idx >= 0) order.splice(idx, 1)
RemoveFirst(s, x) == IF IndexOf(s, x) = 0 THEN s ELSE RemoveAt(s, IndexOf(s, x))

SeqToSet(s) == {s[i] : i \in 1..Len(s)}

Ids(m) == [i \in 1..Len(m) |-> m[i].id]

RECURSIVE MapIndexFrom(_, _, _)
MapIndexFrom(m, id, i) ==
  IF i > Len(m) THEN 0
  ELSE IF m[i].id = id THEN i ELSE MapIndexFrom(m, id, i + 1)

MapIndex(m, id) == MapIndexFrom(m, id, 1)

MapHas(m, id) == MapIndex(m, id) # 0

\* the value JavaScript returns for a missing key
NoAlert ==
  [id |-> "undefined", eventType |-> "", severity |-> "", urgency |-> "",
   issuedAt |-> 0, ttlSec |-> 0, regionId |-> "", threadKey |-> ""]

MapGet(m, id) == IF MapHas(m, id) THEN m[MapIndex(m, id)] ELSE NoAlert

\* Map.set: an existing key keeps its position, a new key goes last
MapSet(m, a) ==
  IF MapHas(m, a.id) THEN [m EXCEPT ![MapIndex(m, a.id)] = a] ELSE Append(m, a)

MapDelete(m, id) == IF MapHas(m, id) THEN RemoveAt(m, MapIndex(m, id)) ELSE m

(***************************************************************************)
(* Alerts (sim/types.ts) and expiry (policies/base.ts)                     *)
(***************************************************************************)
\* a.threadKey is optional: "" stands for an absent threadKey
NoThread == ""

Alert(id, ev, sev, urg, iss, ttl, reg, th) ==
  [id |-> id, eventType |-> ev, severity |-> sev, urgency |-> urg,
   issuedAt |-> iss, ttlSec |-> ttl, regionId |-> reg, threadKey |-> th]

\* variant: an alert expires only after issuedAt + ttlSec
IsExpiredLate(a, t) == t > a.issuedAt + a.ttlSec

IsExpired(a, t) == t >= a.issuedAt + a.ttlSec

(***************************************************************************)
(* FrequencySketch (policies/frequency-sketch.ts): four rows a, b, c, d of *)
(* counters; a key's four indices are cut out of one hash of the key.      *)
(* The hash of a key is hashOf[key], a tuple of the four indices.          *)
(***************************************************************************)
NewSketch == [l \in 1..4 |-> [i \in 0..(SketchWidth - 1) |-> 0]]

\* the counters are Uint16: ++ wraps at 2^16
Uint16 == 65536

SketchIncrement(rows, key) ==
  [l \in 1..4 |-> [rows[l] EXCEPT ![hashOf[key][l]] = (@ + 1) % Uint16]]

Min2(x, y) == IF x <= y THEN x ELSE y

SketchEstimate(rows, key) ==
  Min2(Min2(rows[1][hashOf[key][1]], rows[2][hashOf[key][2]]),
       Min2(rows[3][hashOf[key][3]], rows[4][hashOf[key][4]]))

SketchMax(rows) ==
  CHOOSE c \in {rows[l][i] : l \in 1..4, i \in 0..(SketchWidth - 1)} :
    \A l \in 1..4, i \in 0..(SketchWidth - 1) : rows[l][i] <= c

(***************************************************************************)
(* The policy object.  One record serves the four classes:                 *)
(*   name, cap : the class and its capacity                                *)
(*   map       : Map<string, Alert> in insertion order                     *)
(*   order     : the string[] of LRU, TTLOnly and PAFTinyLFU               *)
(*   sketch    : the FrequencySketch of PAFTinyLFU                         *)
(*   w         : the weights of PriorityFresh, each a number or undefined  *)
(*   predictor : whether PriorityFresh holds a PriorityForecastModel       *)
(***************************************************************************)
PolicyNames == <<"LRU", "TTLOnly", "PriorityFresh", "PAFTinyLFU">>

\* a weight in the constructor's argument: absent, present as undefined, or
\* a number
WAbsent == [tag |-> "absent", v |-> 0]
WUndefined == [tag |-> "undefined", v |-> 0]
WNum(n) == [tag |-> "num", v |-> n]

DefaultWeights == [wS |-> WNum(2), wU |-> WNum(3), wF |-> WNum(4)]

\* { wS: 2, wU: 3, wF: 4, ...weights }: every own property of the argument,
\* also one whose value is undefined, replaces the default
SpreadWeights(weights) ==
  [k \in {"wS", "wU", "wF"} |->
     IF weights[k].tag = "absent" THEN DefaultWeights[k] ELSE weights[k]]

NoWeights == [wS |-> WAbsent, wU |-> WAbsent, wF |-> WAbsent]

NewLRU(capacity) ==
  [name |-> "LRU", cap |-> capacity, map |-> <<>>, order |-> <<>>,
   sketch |-> NewSketch, w |-> DefaultWeights, predictor |-> FALSE]

NewTTLOnly(capacity) ==
  [name |-> "TTLOnly", cap |-> capacity, map |-> <<>>, order |-> <<>>,
   sketch |-> NewSketch, w |-> DefaultWeights, predictor |-> FALSE]

NewPriorityFresh(capacity, weights, predictor) ==
  [name |-> "PriorityFresh", cap |-> capacity, map |-> <<>>, order |-> <<>>,
   sketch |-> NewSketch, w |-> SpreadWeights(weights),
   predictor |-> predictor]

NewPAFTinyLFU(capacity) ==
  [name |-> "PAFTinyLFU", cap |-> capacity, map |-> <<>>, order |-> <<>>,
   sketch |-> NewSketch, w |-> DefaultWeights, predictor |-> FALSE]

\* purgeExpired: the map loses every expired alert
PurgeMap(m, t) == SelectSeq(m, LAMBDA a : ~IsExpired(a, t))

\* purgeExpired: for every expired alert of the map, in map order, the first
\* occurrence of its id leaves the order list
RECURSIVE PurgeOrderFrom(_, _, _, _)
PurgeOrderFrom(order, m, t, i) ==
  IF i > Len(m) THEN order
  ELSE PurgeOrderFrom(IF IsExpired(m[i], t) THEN RemoveFirst(order, m[i].id)
                      ELSE order, m, t, i + 1)

\* LRU.purgeExpired, TTLOnly.purgeExpired, PAFTinyLFUCache.purgeExpired
PurgeExpired(p, t) ==
  [p EXCEPT !.map = PurgeMap(p.map, t),
            !.order = PurgeOrderFrom(p.order, p.map, t, 1)]

\* PriorityFresh.purgeExpired: there is no order list
PFPurgeExpired(p, t) == [p EXCEPT !.map = PurgeMap(p.map, t)]

(***************************************************************************)
(* LRU                                                                     *)
(***************************************************************************)
\* variant: an id already in the list keeps its place
LRUTouchNew(order, id) ==
  IF IndexOf(order, id) = 0 THEN Append(order, id) ELSE order

\* touch(id): the id leaves its place in order and is pushed at the end
LRUTouch(order, id) == Append(RemoveFirst(order, id), id)

\* while (map.size > cap) { evictId = order.shift(); if (evictId) delete; else break }
RECURSIVE LRUEvict(_)
LRUEvict(p) ==
  IF Len(p.map) > p.cap
  THEN IF p.order = <<>> THEN p
       ELSE LRUEvict([p EXCEPT !.map = MapDelete(p.map, Head(p.order)),
                               !.order = Tail(p.order)])
  ELSE p

LRUPut(p, a, t) ==
  LET q == PurgeExpired(p, t)
  IN LRUEvict([q EXCEPT !.map = MapSet(q.map, a),
                        !.order = LRUTouch(q.order, a.id)])

\* returns the policy after the call and the value returned
LRUGet(p, id, t) ==
  LET q == PurgeExpired(p, t)
      a == MapGet(q.map, id)
  IN [pol |-> IF a # NoAlert THEN [q EXCEPT !.order = LRUTouch(q.order, id)]
              ELSE q,
      res |-> a]

(***************************************************************************)
(* TTLOnly                                                                 *)
(***************************************************************************)
RECURSIVE TTLEvict(_)
TTLEvict(p) ==
  IF Len(p.map) > p.cap
  THEN IF p.order = <<>> THEN p
       ELSE TTLEvict([p EXCEPT !.map = MapDelete(p.map, Head(p.order)),
                               !.order = Tail(p.order)])
  ELSE p

\* variant: the eviction loop runs while size >= capacity
TTLPutEager(p, a, t) ==
  LET q == PurgeExpired(p, t)
      e == TTLEvict([q EXCEPT !.map = MapSet(q.map, a),
                              !.order = Append(q.order, a.id),
                              !.cap = q.cap - 1])
  IN [e EXCEPT !.cap = q.cap]

TTLPut(p, a, t) ==
  LET q == PurgeExpired(p, t)
  IN TTLEvict([q EXCEPT !.map = MapSet(q.map, a),
                        !.order = Append(q.order, a.id)])

TTLGet(p, id, t) ==
  LET q == PurgeExpired(p, t)
  IN [pol |-> q, res |-> MapGet(q.map, id)]

(***************************************************************************)
(* PriorityFresh                                                           *)
(***************************************************************************)
FreshScale == 10000

\* round(FreshScale * exp(-age / 600)) for age = 0, 1, 2, ...
ExpTable ==
  <<10000, 9983, 9967, 9950, 9934, 9917, 9900, 9884, 9868, 9851, 9835,
    9818, 9802, 9786, 9769, 9753, 9737, 9721, 9704, 9688, 9672, 9656, 9640,
    9624, 9608, 9592, 9576, 9560, 9544, 9528, 9512, 9496, 9481, 9465, 9449,
    9433, 9418, 9402, 9386, 9371, 9355, 9339, 9324, 9308, 9293, 9277, 9262,
    9247, 9231, 9216, 9200, 9185, 9170, 9155, 9139, 9124, 9109, 9094, 9079,
    9063, 9048, 9033, 9018, 9003, 8988, 8973, 8958, 8943, 8929, 8914, 8899,
    8884, 8869, 8854, 8840, 8825, 8810, 8796, 8781, 8766, 8752, 8737, 8723,
    8708, 8694, 8679, 8665, 8650, 8636, 8621, 8607, 8593, 8578, 8564, 8550,
    8536, 8521, 8507, 8493, 8479, 8465, 8451, 8437, 8423, 8409, 8395, 8381,
    8367, 8353, 8339, 8325, 8311, 8297, 8283, 8270, 8256, 8242, 8228, 8215,
    8201, 8187, 8174, 8160, 8146, 8133, 8119, 8106, 8092, 8079, 8065, 8052,
    8039, 8025, 8012, 7998, 7985, 7972, 7959, 7945, 7932, 7919, 7906, 7893,
    7879, 7866, 7853, 7840, 7827, 7814, 7801, 7788, 7775, 7762, 7749, 7736,
    7723, 7711, 7698, 7685, 7672, 7659, 7647, 7634, 7621, 7608, 7596, 7583,
    7570, 7558, 7545, 7533, 7520, 7508, 7495, 7483, 7470, 7458, 7445, 7433,
    7421, 7408, 7396, 7384, 7371, 7359, 7347, 7334, 7322, 7310, 7298, 7286,
    7274, 7261, 7249, 7237, 7225, 7213, 7201, 7189, 7177, 7165, 7153, 7141,
    7130, 7118, 7106, 7094, 7082, 7070, 7059, 7047, 7035, 7023, 7012, 7000,
    6988, 6977, 6965, 6954, 6942, 6930, 6919, 6907, 6896, 6884, 6873, 6861,
    6850, 6839, 6827, 6816, 6805, 6793, 6782, 6771, 6759, 6748, 6737, 6726,
    6714, 6703, 6692, 6681, 6670, 6659, 6648, 6637, 6625, 6614, 6603, 6592,
    6581, 6570, 6560, 6549, 6538, 6527, 6516, 6505, 6494, 6483, 6473, 6462,
    6451, 6440, 6430, 6419, 6408, 6398, 6387, 6376, 6366, 6355, 6344, 6334,
    6323, 6313, 6302, 6292, 6281, 6271, 6260, 6250, 6240, 6229, 6219, 6208,
    6198, 6188, 6178, 6167, 6157, 6147, 6136, 6126, 6116, 6106, 6096, 6086,
    6075, 6065, 6055, 6045, 6035, 6025, 6015, 6005, 5995, 5985, 5975, 5965,
    5955, 5945, 5935, 5925, 5916, 5906, 5896, 5886, 5876, 5866, 5857, 5847,
    5837, 5827, 5818, 5808, 5798, 5789, 5779, 5769, 5760, 5750, 5741, 5731,
    5722, 5712, 5703, 5693, 5684, 5674, 5665, 5655, 5646, 5636, 5627, 5618,
    5608, 5599, 5590, 5580, 5571, 5562, 5553, 5543, 5534, 5525, 5516, 5506,
    5497, 5488, 5479, 5470, 5461, 5452, 5443, 5434, 5424, 5415, 5406, 5397,
    5388, 5379, 5370, 5362, 5353, 5344, 5335, 5326, 5317, 5308, 5299, 5291,
    5282, 5273, 5264, 5255, 5247, 5238, 5229, 5220, 5212, 5203, 5194, 5186,
    5177, 5169, 5160, 5151, 5143, 5134, 5126, 5117, 5109, 5100, 5092, 5083,
    5075, 5066, 5058, 5049, 5041, 5033, 5024, 5016, 5007, 4999, 4991, 4982,
    4974, 4966, 4958, 4949, 4941, 4933, 4925, 4916, 4908, 4900, 4892, 4884,
    4876, 4868, 4859, 4851, 4843, 4835, 4827, 4819, 4811, 4803, 4795, 4787,
    4779, 4771, 4763, 4755, 4747, 4739, 4732, 4724, 4716, 4708, 4700, 4692,
    4684, 4677, 4669, 4661, 4653, 4646, 4638, 4630, 4622, 4615, 4607, 4599,
    4592, 4584, 4576, 4569, 4561, 4554, 4546, 4538, 4531, 4523, 4516, 4508,
    4501, 4493, 4486, 4478, 4471, 4463, 4456, 4449, 4441, 4434, 4426, 4419,
    4412, 4404, 4397, 4390, 4382, 4375, 4368, 4360, 4353, 4346, 4339, 4332,
    4324, 4317, 4310, 4303, 4296, 4288, 4281, 4274, 4267, 4260, 4253, 4246,
    4239, 4232, 4225, 4218, 4211, 4204, 4197, 4190, 4183, 4176, 4169, 4162,
    4155, 4148, 4141, 4134, 4127, 4120, 4113, 4107, 4100, 4093, 4086, 4079,
    4072, 4066, 4059, 4052, 4045, 4039, 4032, 4025, 4019, 4012, 4005, 3998,
    3992, 3985, 3979, 3972, 3965, 3959, 3952, 3946, 3939, 3932, 3926, 3919,
    3913, 3906, 3900, 3893, 3887, 3880, 3874, 3867, 3861, 3855, 3848, 3842,
    3835, 3829, 3823, 3816, 3810, 3803, 3797, 3791, 3785, 3778, 3772, 3766,
    3759, 3753, 3747, 3741, 3734, 3728, 3722, 3716, 3710, 3703, 3697, 3691,
    3685, 3679, 3673, 3667, 3660, 3654, 3648>>

Max2(x, y) == IF x >= y THEN x ELSE y

SevWeight(s) ==
  IF s = "Extreme" THEN 4
  ELSE IF s = "Severe" THEN 3
  ELSE IF s = "Moderate" THEN 2
  ELSE IF s = "Minor" THEN 1
  ELSE 2

\* twice the urgency weight (3, 2, 1.5, 0.5, 1.5)
UrgWeight2(u) ==
  IF u = "Immediate" THEN 6
  ELSE IF u = "Expected" THEN 4
  ELSE IF u = "Future" THEN 3
  ELSE IF u = "Past" THEN 1
  ELSE 3

\* FreshScale * exp(-lambda * max(0, now - issuedAt)), lambda = 1/600
PFFreshness(a, t) == ExpTable[Max2(0, t - a.issuedAt) + 1]

NaN == [nan |-> TRUE, v |-> 0]
Num(x) == [nan |-> FALSE, v |-> x]

\* IEEE-754 "<": false when either side is NaN
JsLess(x, y) == ~x.nan /\ ~y.nan /\ x.v < y.v

\* base = wS * sev + wU * urg + wF * fresh, times 2 * FreshScale; an
\* undefined weight makes the product, and the sum, NaN
PFBase(p, a, t) ==
  IF p.w.wS.tag # "num" \/ p.w.wU.tag # "num" \/ p.w.wF.tag # "num"
  THEN NaN
  ELSE Num(p.w.wS.v * SevWeight(a.severity) * 2 * FreshScale
           + p.w.wU.v * UrgWeight2(a.urgency) * FreshScale
           + p.w.wF.v * 2 * PFFreshness(a, t))

\* PriorityFresh.score, times 20 * FreshScale.  Without a predictor the
\* score is base.  With one it is detail.total of PriorityForecastModel.score
\* called with explore: base + base * (probability - 0.5) + exploration,
\* where exploration is 0 or (rng() - 0.5) * base * 0.6.  The draw d gives
\* the probability in halves (d.ph = 0, 1, 2) and the exploration term as
\* d.ex = -1, 0, 1 for -0.3 * base, 0, +0.3 * base.  NaN stays NaN.
PFScore(p, a, t, d) ==
  LET base == PFBase(p, a, t)
  IN IF base.nan THEN NaN
     ELSE IF ~p.predictor THEN Num(10 * base.v)
     ELSE Num(base.v * (5 * (1 + d.ph) + 3 * d.ex))

\* variant: the scan keeps the item with the greatest score
PFFirstAbove(s, worst) ==
  IF worst.idx = 0 THEN ~s.nan ELSE JsLess(worst.score, s)

\* the scan of PriorityFresh.put: worstScore starts at Infinity, and an item
\* replaces the worst only when its score is strictly smaller
PFFirstBelow(s, worst) ==
  IF worst.idx = 0 THEN ~s.nan ELSE JsLess(s, worst.score)

RECURSIVE PFWorstFrom(_, _, _)
PFWorstFrom(scores, i, worst) ==
  IF i > Len(scores) THEN worst
  ELSE PFWorstFrom(scores, i + 1,
         IF PFFirstBelow(scores[i], worst)
         THEN [idx |-> i, score |-> scores[i]] ELSE worst)

\* the index in the map of worstId, 0 when worstId stays null
PFWorst(scores) == PFWorstFrom(scores, 1, [idx |-> 0, score |-> NaN]).idx

\* the scores the scan computes, in map order; ds[i] is the predictor's draw
\* for the i-th item
PFScores(p, t, ds) == [i \in 1..Len(p.map) |-> PFScore(p, p.map[i], t, ds[i])]

PFPut(p, a, t, ds) ==
  LET q == PFPurgeExpired(p, t)
  IN IF Len(q.map) < q.cap THEN [q EXCEPT !.map = MapSet(q.map, a)]
     ELSE LET worst == PFWorst(PFScores(q, t, ds))
              m1 == IF worst # 0 THEN RemoveAt(q.map, worst) ELSE q.map
          IN [q EXCEPT !.map = MapSet(m1, a)]

PFGet(p, id, t) ==
  LET q == PFPurgeExpired(p, t)
  IN [pol |-> q, res |-> MapGet(q.map, id)]

(***************************************************************************)
(* PAFTinyLFU                                                              *)
(***************************************************************************)
PAFSampleSize == 8

\* const key = a.threadKey ?? a.id
PAFKey(a) == IF a.threadKey = NoThread THEN a.id ELSE a.threadKey

\* touch(id): move id to the end of order and increment the sketch at id
PAFTouch(p, id) ==
  [p EXCEPT !.order = Append(RemoveFirst(p.order, id), id),
            !.sketch = SketchIncrement(p.sketch, id)]

\* sketchEstimateFor(id)
PAFEstimateFor(p, id) == SketchEstimate(p.sketch, id)

\* order.slice(0, Math.min(8, order.length))
PAFSample(p) == SubSeq(p.order, 1, Min2(PAFSampleSize, Len(p.order)))

\* the victim scan: start from sample[0], replace on a strictly smaller estimate
RECURSIVE PAFVictimFrom(_, _, _, _)
PAFVictimFrom(p, sample, i, victimId) ==
  IF i > Len(sample) THEN victimId
  ELSE PAFVictimFrom(p, sample, i + 1,
         IF PAFEstimateFor(p, sample[i]) < PAFEstimateFor(p, victimId)
         THEN sample[i] ELSE victimId)

PAFVictim(p) == PAFVictimFrom(p, PAFSample(p), 1, PAFSample(p)[1])

\* variant: the candidate is admitted only when strictly more frequent
PAFAdmitStrict(candScore, victimScore) == candScore > victimScore

\* if (candScore >= victimScore)
PAFAdmit(candScore, victimScore) == candScore >= victimScore

\* variant: the victim is removed before the estimates are compared
PAFRejectEvicting(q) ==
  [q EXCEPT !.map = MapDelete(q.map, PAFVictim(q)),
            !.order = RemoveFirst(q.order, PAFVictim(q))]

\* else: reject admission (nothing more is done)
PAFReject(q) == q

\* put throws: with nothing cached and no room (a capacity of 0 or less)
\* the sample is empty, victimId is undefined and sketch.estimate(undefined)
\* reads key.length in hash, a TypeError
PutThrows(p, a, t) ==
  /\ p.name = "PAFTinyLFU"
  /\ Len(PurgeMap(p.map, t)) >= p.cap
  /\ PurgeExpired(p, t).order = <<>>

\* the policy is left as it is when the exception is thrown, after the
\* increment of the sketch
PAFPut(p, a, t) ==
  LET q0 == PurgeExpired(p, t)
      key == PAFKey(a)
      q == [q0 EXCEPT !.sketch = SketchIncrement(q0.sketch, key)]
  IN IF Len(q.map) < q.cap
     THEN PAFTouch([q EXCEPT !.map = MapSet(q.map, a)], a.id)
     ELSE IF q.order = <<>> THEN q
     ELSE LET victimId == PAFVictim(q)
              victimScore == PAFEstimateFor(q, victimId)
              candScore == SketchEstimate(q.sketch, key)
          IN IF PAFAdmit(candScore, victimScore)
             THEN PAFTouch([q EXCEPT
                              !.map = MapSet(MapDelete(q.map, victimId), a),
                              !.order = RemoveFirst(q.order, victimId)], a.id)
             ELSE PAFReject(q)

PAFGet(p, id, t) ==
  LET q == PurgeExpired(p, t)
      a == MapGet(q.map, id)
  IN [pol |-> IF a # NoAlert THEN PAFTouch(q, id) ELSE q, res |-> a]

(***************************************************************************)
(* The CachePolicy interface (policies/base.ts), dispatched on the class   *)
(***************************************************************************)
PolicyPut(p, a, t, ds) ==
  CASE p.name = "LRU" -> LRUPut(p, a, t)
    [] p.name = "TTLOnly" -> TTLPut(p, a, t)
    [] p.name = "PriorityFresh" -> PFPut(p, a, t, ds)
    [] p.name = "PAFTinyLFU" -> PAFPut(p, a, t)

PolicyGet(p, id, t) ==
  CASE p.name = "LRU" -> LRUGet(p, id, t)
    [] p.name = "TTLOnly" -> TTLGet(p, id, t)
    [] p.name = "PriorityFresh" -> PFGet(p, id, t)
    [] p.name = "PAFTinyLFU" -> PAFGet(p, id, t)

\* has(id, now) { return !!this.get(id, now) }
PolicyHas(p, id, t) ==
  LET g == PolicyGet(p, id, t)
  IN [pol |-> g.pol, res |-> (g.res # NoAlert)]

\* size() { return this.map.size }
PolicySize(p) == Len(p.map)

\* variant: entries returns the cached alerts without purging
PolicyEntriesUnpurged(p, t) == [pol |-> p, res |-> p.map]

\* entries(now) { this.purgeExpired(now); return [...this.map.values()] }
PolicyEntries(p, t) ==
  LET q == IF p.name = "PriorityFresh" THEN PFPurgeExpired(p, t)
           ELSE PurgeExpired(p, t)
  IN [pol |-> q, res |-> q.map]

(***************************************************************************)
(* Policy-level specification: one policy object, constructed with a       *)
(* capacity of at least 1, receives any sequence of put / get / has /      *)
(* entries calls with non-decreasing times.                                *)
(***************************************************************************)
\* the alerts the calls are made with; A1 and A2 score the same under the
\* default weights, A2 and A3 share a thread, A1 has no threadKey
PolicyAlerts ==
  {Alert("A1", "Flood", "Moderate", "Future", 0, 2, "R1", NoThread),
   Alert("A2", "Flood", "Unknown", "Unknown", 0, 9, "R1", "T1"),
   Alert("A3", "Flood", "Severe", "Immediate", 1, 2, "R1", "T1")}

PolicyKeys == {"A1", "A2", "A3", "T1"}

\* the hash of a key: its index in each of the four rows
HashVals == {<<0, 0, 0, 0>>, <<1, 1, 1, 1>>, <<0, 1, 0, 1>>}


\* the weights arguments PriorityFresh is constructed with: none, numbers,
\* and the object createPolicy builds from options without wS, wU, wF
WeightArgs ==
  {NoWeights,
   [wS |-> WNum(1), wU |-> WNum(0), wF |-> WNum(5)],
   [wS |-> WUndefined, wU |-> WUndefined, wF |-> WUndefined]}

NoRun == [phase |-> "off"]

\* no sketch under test
NoSketch == [kind |-> "none"]

\* no orchestrator call
NoBatch == [kind |-> "none"]

\* no PF model under test
NoModel == [kind |-> "none"]

NoSynth == [kind |-> "none"]

\* the predictor's draw when there is no predictor
NoDraw == [ph |-> 1, ex |-> 0]

NoDraws == [i \in 1..8 |-> NoDraw]

NewPolicies ==
  {NewLRU(c) : c \in 1..MaxCap} \cup {NewTTLOnly(c) : c \in 1..MaxCap}
  \cup {NewPriorityFresh(c, w, FALSE) : c \in 1..MaxCap, w \in WeightArgs}
  \cup {NewPAFTinyLFU(c) : c \in 1..MaxCap}

Call(op, a, t, pre, alert, flag, list) ==
  [op |-> op, a |-> a, t |-> t, pre |-> pre, alert |-> alert, flag |-> flag,
   list |-> list]

InitPolicy ==
  /\ pol \in NewPolicies
  /\ hashOf \in [PolicyKeys -> HashVals]
  /\ pol.name # "PAFTinyLFU" => hashOf = [k \in PolicyKeys |-> <<0, 0, 0, 0>>]
  /\ now = 0
  /\ last = Call("new", NoAlert, 0, pol, NoAlert, FALSE, <<>>)
  /\ run = NoRun
  /\ run2 = NoRun
  /\ tape = <<>>
  /\ sk = NoSketch
  /\ pfm = NoModel
  /\ synth = NoSynth
  /\ batch = NoBatch

\* the sketch counters are unbounded in the model; calls stop at MaxCount
SketchRoom == SketchMax(pol.sketch) < MaxCount

\* TTLOnly's order list grows with every put of a cached id
OrderRoom == Len(pol.order) < MaxOrder

Put(a) ==
  /\ SketchRoom
  /\ OrderRoom
  /\ pol' = PolicyPut(pol, a, now, NoDraws)
  /\ last' = Call(IF PutThrows(pol, a, now) THEN "put throws" ELSE "put",
                  a, now, pol, NoAlert, FALSE, <<>>)
  /\ UNCHANGED <<now, hashOf, run, run2, tape, sk, batch, pfm, synth>>

Get(id) ==
  /\ SketchRoom
  /\ pol' = PolicyGet(pol, id, now).pol
  /\ last' = Call("get", [NoAlert EXCEPT !.id = id], now, pol,
                  PolicyGet(pol, id, now).res, FALSE, <<>>)
  /\ UNCHANGED <<now, hashOf, run, run2, tape, sk, batch, pfm, synth>>

Has(id) ==
  /\ SketchRoom
  /\ pol' = PolicyHas(pol, id, now).pol
  /\ last' = Call("has", [NoAlert EXCEPT !.id = id], now, pol, NoAlert,
                  PolicyHas(pol, id, now).res, <<>>)
  /\ UNCHANGED <<now, hashOf, run, run2, tape, sk, batch, pfm, synth>>

Entries ==
  /\ pol' = PolicyEntries(pol, now).pol
  /\ last' = Call("entries", NoAlert, now, pol, NoAlert, FALSE,
                  PolicyEntries(pol, now).res)
  /\ UNCHANGED <<now, hashOf, run, run2, tape, sk, batch, pfm, synth>>

Tick ==
  /\ now < MaxNow
  /\ now' = now + 1
  /\ UNCHANGED <<pol, last, hashOf, run, run2, tape, sk, batch, pfm, synth>>

NextPolicy ==
  \/ \E a \in PolicyAlerts : Put(a)
  \/ \E a \in PolicyAlerts : Get(a.id)
  \/ \E a \in PolicyAlerts : Has(a.id)
  \/ Entries
  \/ Tick

SpecPolicy == InitPolicy /\ [][NextPolicy]_vars

\* the constructors store any capacity given: policies constructed with a
\* capacity of 0 or less
NonPositivePolicies ==
  UNION {{NewLRU(c), NewTTLOnly(c), NewPAFTinyLFU(c)}
         \cup {NewPriorityFresh(c, w, FALSE) : w \in WeightArgs} :
           c \in {0 - 1, 0}}

InitNonPositive ==
  /\ pol \in NonPositivePolicies
  /\ hashOf = [k \in PolicyKeys |-> <<0, 0, 0, 0>>]
  /\ now = 0
  /\ last = Call("new", NoAlert, 0, pol, NoAlert, FALSE, <<>>)
  /\ run = NoRun
  /\ run2 = NoRun
  /\ tape = <<>>
  /\ sk = NoSketch
  /\ pfm = NoModel
  /\ synth = NoSynth
  /\ batch = NoBatch

\* the same calls on a policy constructed with a capacity of 0 or less
SpecNonPositive == InitNonPositive /\ [][NextPolicy]_vars

(***************************************************************************)
(* A PAFTinyLFU cache alone, with counters high enough for residents that  *)
(* were read several times: any sequence of put and get calls.             *)
(***************************************************************************)
MaxEstimate == 6     \* calls stop once a sketch counter reaches this

\* every key on the same counters, the ids on counters of their own, and
\* the thread key apart from the ids
AdmissionHashes ==
  {[k \in PolicyKeys |-> <<0, 0, 0, 0>>],
   [k \in PolicyKeys |-> IF k = "A1" THEN <<0, 0, 0, 0>>
                         ELSE IF k = "A3" THEN <<0, 1, 0, 1>>
                         ELSE <<1, 1, 1, 1>>],
   [k \in PolicyKeys |-> IF k = "T1" THEN <<0, 1, 0, 1>>
                         ELSE IF k = "A3" THEN <<1, 1, 1, 1>>
                         ELSE <<0, 0, 0, 0>>]}

InitAdmission ==
  /\ pol \in {NewPAFTinyLFU(c) : c \in 1..MaxCap}
  /\ hashOf \in AdmissionHashes
  /\ now = 0
  /\ last = Call("new", NoAlert, 0, pol, NoAlert, FALSE, <<>>)
  /\ run = NoRun
  /\ run2 = NoRun
  /\ tape = <<>>
  /\ sk = NoSketch
  /\ pfm = NoModel
  /\ synth = NoSynth
  /\ batch = NoBatch

EstimateRoom == SketchMax(pol.sketch) < MaxEstimate

AdmissionPut(a) ==
  /\ EstimateRoom
  /\ pol' = PAFPut(pol, a, now)
  /\ last' = Call("put", a, now, pol, NoAlert, FALSE, <<>>)
  /\ UNCHANGED <<now, hashOf, run, run2, tape, sk, batch, pfm, synth>>

AdmissionGet(id) ==
  /\ EstimateRoom
  /\ pol' = PAFGet(pol, id, now).pol
  /\ last' = Call("get", [NoAlert EXCEPT !.id = id], now, pol,
                  PAFGet(pol, id, now).res, FALSE, <<>>)
  /\ UNCHANGED <<now, hashOf, run, run2, tape, sk, batch, pfm, synth>>

NextAdmission ==
  \/ \E a \in PolicyAlerts : AdmissionPut(a)
  \/ \E a \in PolicyAlerts : AdmissionGet(a.id)
  \/ Tick

SpecAdmission == InitAdmission /\ [][NextAdmission]_vars

(***************************************************************************)
(* The simulation engine, runSimulation.  The state of one call is a       *)
(* record r:                                                               *)
(*   opts             the RunOptions                                       *)
(*   alertStream      what synthAlerts returned                            *)
(*                    synthAlerts returns for them                         *)
(*   phase, t, arrIdx, retryIdx, q   the position in the main loop         *)
(*   policy, pf       the cache policy and the PF model                    *)
(*   delivered ... timeline, pending, regionStats   the locals of the call *)
(*   pushLog, decision   history: every push sent, and the last push       *)
(*                    decision taken                                       *)
(* A step takes its random draws as an argument d, so that the same step   *)
(* serves a run whose draws are free and a run that replays a seeded       *)
(* stream.                                                                 *)
(*                                                                         *)
(* The PF model is kept as the list of train calls made on it: its weights *)
(* are a function of that list.  The probability it predicts is a draw     *)
(* (in halves: 0, 1, 2).                                                   *)
(***************************************************************************)
Regions == {"R1", "R2"}

ThreadKeys == {"Flood:R1", "Shelter:R2:7"}

\* the value of a Map lookup that misses (undefined, or -Infinity after ??)
Absent == 0 - 1

PushWindowSec == 60

\* Math.max(1, Math.floor(opts.deliveryRetryIntervalSec ?? 0))
RetryIntervalOf(opts) == Max2(1, opts.deliveryRetryIntervalSec)

\* Math.max(1, Math.floor(opts.deliveryMaxAttempts ?? 1))
MaxAttemptsOf(opts) == Max2(1, opts.deliveryMaxAttempts)

\* variant: the loop runs while i <= steps
StepsInclusive(opts) == Max2(1, opts.durationSec) + 1

\* Math.max(1, Math.floor(opts.durationSec / dt))
StepsOf(opts) == Max2(1, opts.durationSec)

\* Math.max(0, Math.floor(opts.pushRateLimitPerMin ?? 0))
RateLimitOf(opts) == Max2(0, opts.pushRateLimitPerMin)

\* Math.max(0, Math.floor(opts.pushDedupWindowSec ?? 0))
DedupWindowOf(opts) == Max2(0, opts.pushDedupWindowSec)

\* pickScenario(name): any name other than Urban and Suburban gives the
\* Rural scenario
PickScenario(name) ==
  IF name = "Urban" THEN "Urban"
  ELSE IF name = "Suburban" THEN "Suburban"
  ELSE "Rural"

\* createPolicy: a name other than LRU, TTLOnly and PAFTinyLFU gives a
\* PriorityFresh, with { wS: opts.wS, wU: opts.wU, wF: opts.wF } and the PF
\* model (which exists only when opts.policy is PriorityFresh); an option
\* left unset is passed as undefined
CreatePolicy(opts) ==
  IF opts.policy = "LRU" THEN NewLRU(opts.cacheSize)
  ELSE IF opts.policy = "TTLOnly" THEN NewTTLOnly(opts.cacheSize)
  ELSE IF opts.policy = "PAFTinyLFU" THEN NewPAFTinyLFU(opts.cacheSize)
  ELSE NewPriorityFresh(opts.cacheSize,
                        [wS |-> opts.wS, wU |-> opts.wU, wF |-> opts.wF],
                        opts.policy = "PriorityFresh")

\* if (opts.policy === 'PriorityFresh') pfModel = new PriorityForecastModel
HasPF(r) == r.opts.policy = "PriorityFresh"

NoDecision ==
  [t |-> Absent, id |-> "", withinRate |-> FALSE, notDuplicate |-> FALSE,
   meets |-> FALSE, highImpact |-> FALSE, pushed |-> FALSE]

\* lastHit of a run is the alert policy.get returned in the latest query
\* that hit, and the time of the query
NoHit == [id |-> "", t |-> Absent]

\* the alerts of a stream, in issue order; synthAlerts gives every alert a
\* threadKey and a ttl of at least 120 s
StreamAlert(k, iss) ==
  IF k = 1 THEN Alert("A1", "Flood", "Moderate", "Expected", iss, 120,
                      "R1", "Flood:R1")
  ELSE IF k = 2 THEN Alert("A2", "Flood", "Severe", "Immediate", iss, 120,
                           "R1", "Flood:R1")
  ELSE IF k = 3 THEN Alert("A3", "Shelter", "Minor", "Future", iss, 120,
                           "R2", "Shelter:R2:7")
  ELSE Alert("A4", "Flood", "Minor", "Past", iss, 120, "R1", "Flood:R1")

\* The alert stream is a function of opts.seed (through the generator seeded
\* with it), opts.alerts, opts.durationSec and the scenario.  A seed of the
\* model is named after the arrival times synthAlerts draws from it:
\* IssueTime(seed, k) is t after the k-th gap.  Every gap is at least 1.
IssueTime(seed, k) ==
  IF seed = "tail" THEN (IF k = 1 THEN 1 ELSE IF k = 2 THEN 3 ELSE k + 6)
  ELSE IF seed = "late" THEN (IF k = 1 THEN 1 ELSE 59 + k)
  ELSE IF seed = "edge" THEN (IF k = 1 THEN 2 ELSE IF k = 2 THEN 62
                              ELSE 62 + 8 * k)
  ELSE k

\* variant: the loop condition is alerts.length <= opts.alerts
StreamLenInclusive(opts) ==
  Cardinality({k \in 1..(opts.alerts + 1) :
                 k = 1 \/ IssueTime(opts.seed, k - 1) < opts.durationSec})

\* while (alerts.length < opts.alerts && t < horizon): the number of alerts
\* synthAlerts pushes
StreamLen(opts) ==
  Cardinality({k \in 1..opts.alerts :
                 k = 1 \/ IssueTime(opts.seed, k - 1) < opts.durationSec})

\* synthAlerts: ids A1, A2, ... in issue order, issuedAt: Math.min(t,
\* horizon - 1)
SynthAlerts(opts) ==
  [k \in 1..StreamLen(opts) |->
     StreamAlert(k, Min2(IssueTime(opts.seed, k), opts.durationSec - 1))]

\* the locals of runSimulation before the main loop
NewRun(opts) ==
  [opts |-> opts, phase |-> "arrivals", t |-> 0, arrIdx |-> 1, retryIdx |-> 0,
   q |-> 0, alertStream |-> SynthAlerts(opts),
   policy |-> CreatePolicy(opts), pf |-> <<>>,
   delivered |-> 0, hits |-> 0, misses |-> 0, staleAccess |-> 0,
   duplicateDelivered |-> 0, pushesSent |-> 0, pushSuppressCount |-> 0,
   pushDuplicates |-> 0, freshnessSum |-> 0,
   lastPushByThread |-> [th \in ThreadKeys |-> Absent],
   firstPushTimeByThread |-> [th \in ThreadKeys |-> Absent],
   pushTimes |-> <<>>,
   firstRetrievalByThread |-> [th \in ThreadKeys |-> Absent],
   firstActionableByThread |-> [th \in ThreadKeys |-> FALSE],
   deliveredByThread |-> [th \in ThreadKeys |-> 0],
   deliveredAlerts |-> <<>>, issuedAlerts |-> <<>>, timeline |-> <<>>,
   pending |-> <<>>,
   regionStats |-> [g \in Regions |-> [delivered |-> 0, dropped |-> 0]],
   pushLog |-> <<>>, decision |-> NoDecision, history |-> <<>>,
   lastHit |-> NoHit]

\* byTime.get(Math.floor(t)) ?? []
Arrivals(r) == SelectSeq(r.alertStream, LAMBDA a : a.issuedAt = r.t)

\* the position in the loop body moves on past an empty arrival list and an
\* empty or finished retry scan
RECURSIVE Normalize(_)
Normalize(r) ==
  IF r.phase = "arrivals" /\ r.arrIdx > Len(Arrivals(r))
  THEN Normalize([r EXCEPT !.phase = "retries", !.retryIdx = Len(r.pending)])
  ELSE IF r.phase = "retries" /\ r.retryIdx = 0
  THEN [r EXCEPT !.phase = "poisson"]
  ELSE r

\* pfModel.observeDrop(a, t): one train call with label 0
ObserveDrop(r, a) ==
  IF HasPF(r) THEN [r EXCEPT !.pf = Append(@, <<"drop", a.id, r.t>>)] ELSE r

\* variant: a drop is counted in the region's delivered count
RecordDropAsDelivered(r, a) ==
  ObserveDrop([r EXCEPT !.regionStats[a.regionId].delivered = @ + 1,
                        !.history = Append(@, <<"dropped", a.id, r.t>>)], a)

\* stats.dropped += 1; if (pfModel) pfModel.observeDrop(a, t).  history is
\* the record of the run's delivery attempts and drops, in order
RecordDrop(r, a) ==
  ObserveDrop([r EXCEPT !.regionStats[a.regionId].dropped = @ + 1,
                        !.history = Append(@, <<"dropped", a.id, r.t>>)], a)

\* countRecent drops the leading entries older than now - windowSec
RECURSIVE DropOld(_, _)
DropOld(times, start) ==
  IF times # <<>> /\ Head(times) < start THEN DropOld(Tail(times), start)
  ELSE times

\* the pushTimes array after countRecent(pushTimes, now, windowSec); the
\* count returned is its length
CountRecent(times, t, windowSec) == DropOld(times, t - windowSec)

\* const thread = a.threadKey ?? `${a.eventType}:${regionId}`
ThreadOf(a) ==
  IF a.threadKey # NoThread THEN a.threadKey
  ELSE a.eventType \o ":" \o a.regionId

HighImpact(a) ==
  a.urgency = "Immediate" \/ a.severity = "Extreme" \/ a.severity = "Severe"

\* variant: a push is within the rate while count <= R
WithinRateInclusive(count, R) == IF R > 0 THEN count <= R ELSE FALSE

\* const withinRate = R > 0 ? countRecent(pushTimes, now, 60) < R : false
WithinRate(count, R) == IF R > 0 THEN count < R ELSE FALSE

\* variant: a push D seconds after the last one is not a duplicate
NotDuplicateInclusive(t, lastPushT, D) ==
  IF D > 0 THEN lastPushT = Absent \/ t - lastPushT >= D ELSE TRUE

\* const notDuplicate = D > 0 ? now - lastPushT > D : true
NotDuplicate(t, lastPushT, D) ==
  IF D > 0 THEN lastPushT = Absent \/ t - lastPushT > D ELSE TRUE

\* variant: a delivery suppressed by the rate limit or the dedup window is
\* not counted
SuppressUncounted(r, times, dec) ==
  IF dec.withinRate /\ dec.notDuplicate
  THEN [r EXCEPT !.pushTimes = times, !.pushSuppressCount = @ + 1,
                 !.decision = dec]
  ELSE [r EXCEPT !.pushTimes = times, !.decision = dec]

\* } else { pushSuppressCount++; }  (times is pushTimes as countRecent left
\* it)
Suppress(r, times, dec) ==
  [r EXCEPT !.pushTimes = times, !.pushSuppressCount = @ + 1,
            !.decision = dec]

\* variant: the probability has to exceed the threshold
MeetsThresholdStrict(p, tau, explore) == p > tau \/ explore

\* const meetsThreshold = p >= tau || explore
MeetsThreshold(p, tau, explore) == p >= tau \/ explore

\* the push decision of attemptDelivery, after policy.put.  d.pp is the
\* probability pfModel.score returns (in halves), d.explore is rng() < eps.
PushDecision(r, a, d) ==
  LET R == RateLimitOf(r.opts)
      D == DedupWindowOf(r.opts)
      tau == r.opts.pushThreshold
      times == IF R > 0 THEN CountRecent(r.pushTimes, r.t, PushWindowSec)
               ELSE r.pushTimes
      withinRate == WithinRate(Len(times), R)
      thread == ThreadOf(a)
      lastPushT == r.lastPushByThread[thread]
      notDuplicate == NotDuplicate(r.t, lastPushT, D)
      p == IF HasPF(r) THEN d.pp ELSE 0
      explore == HasPF(r) /\ r.opts.pfExplorationEpsilon > 0 /\ d.explore
      meetsThreshold == MeetsThreshold(p, tau, explore)
      push == withinRate /\ notDuplicate /\ (meetsThreshold \/ HighImpact(a))
      dec == [t |-> r.t, id |-> a.id, withinRate |-> withinRate,
              notDuplicate |-> notDuplicate, meets |-> meetsThreshold,
              highImpact |-> HighImpact(a), pushed |-> push]
  IN IF R > 0
     THEN IF push
          THEN [r EXCEPT
                  !.pushesSent = @ + 1,
                  !.pushTimes = Append(times, r.t),
                  !.lastPushByThread[thread] = r.t,
                  !.firstPushTimeByThread[thread] =
                     IF @ = Absent THEN r.t ELSE @,
                  !.pushDuplicates = IF lastPushT # Absent THEN @ + 1 ELSE @,
                  !.pushLog = Append(@, [t |-> r.t, thread |-> thread,
                                         id |-> a.id]),
                  !.decision = dec]
          ELSE Suppress(r, times, dec)
     ELSE r

\* variant: the first delivery of a thread counts as a duplicate too
IsDuplicateFromFirst(count) == count >= 1

\* if (count > 1) duplicateDelivered++
IsDuplicate(count) == count > 1

\* attemptDelivery(a, now).  d.ok is rng() < effReliability, d.scores are the
\* predictor's draws for the scan of PriorityFresh.put.
AttemptDelivery(r, a, d) ==
  IF d.ok
  THEN LET count == r.deliveredByThread[ThreadOf(a)] + 1
           r1 == [r EXCEPT
                    !.delivered = @ + 1,
                    !.regionStats[a.regionId].delivered = @ + 1,
                    !.deliveredAlerts = Append(@, a.id),
                    !.deliveredByThread[ThreadOf(a)] =
                       IF a.threadKey # NoThread THEN count ELSE @,
                    !.duplicateDelivered =
                       IF a.threadKey # NoThread /\ IsDuplicate(count)
                       THEN @ + 1
                       ELSE @,
                    !.policy = PolicyPut(r.policy, a, r.t, d.scores),
                    !.history = Append(@, <<"delivered", a.id, r.t>>)]
       IN PushDecision(r1, a, d)
  ELSE [r EXCEPT !.history = Append(@, <<"failed", a.id, r.t>>)]

\* variant: the arrival is not counted among the attempts
AttemptsWithArrival(opts) == MaxAttemptsOf(opts)

\* attemptsLeft: maxAttempts - 1
AttemptsAfterArrival(opts) == MaxAttemptsOf(opts) - 1

\* variant: the alert is dropped only after issuedAt + ttlSec
TtlPassedStrictly(a, t) == t > a.issuedAt + a.ttlSec

\* if (t >= a.issuedAt + a.ttlSec)
TtlPassed(a, t) == t >= a.issuedAt + a.ttlSec

\* one pass of the arrivals loop, for the alert at arrIdx
ArriveStep(r, d) ==
  LET a == Arrivals(r)[r.arrIdx]
      r1 == [r EXCEPT !.issuedAlerts = Append(@, a.id),
                      !.arrIdx = @ + 1]
      r2 == AttemptDelivery(r1, a, d)
  IN \* an exception of policy.put leaves runSimulation
     IF d.ok /\ PutThrows(r.policy, a, r.t) THEN [phase |-> "thrown"]
     ELSE Normalize(
       IF d.ok THEN r2
       ELSE IF MaxAttemptsOf(r.opts) > 1
       THEN [r2 EXCEPT !.pending =
               Append(@, [alert |-> a,
                          nextAttemptAt |-> r.t + RetryIntervalOf(r.opts),
                          attemptsLeft |-> AttemptsAfterArrival(r.opts)])]
       ELSE RecordDrop(r2, a))

\* variant: a delivered retry stays in the pending list
RetryDeliveredKept(r, idx) == r

\* if (ok) { pending.splice(idx, 1); }
RetryDelivered(r, idx) == [r EXCEPT !.pending = RemoveAt(@, idx)]

\* one pass of the retry loop, for pending[retryIdx] (the scan runs from the
\* end of the array to its start)
RetryStep(r, d) ==
  LET idx == r.retryIdx
      pnd == r.pending[idx]
      a == pnd.alert
      r1 == [r EXCEPT !.retryIdx = @ - 1]
      r2 == AttemptDelivery(r1, a, d)
  IN IF /\ ~TtlPassed(a, r.t)
        /\ r.t >= pnd.nextAttemptAt
        /\ d.ok
        /\ PutThrows(r.policy, a, r.t)
     THEN [phase |-> "thrown"]
     ELSE Normalize(
       IF TtlPassed(a, r.t)
       THEN RecordDrop([r1 EXCEPT !.pending = RemoveAt(@, idx)], a)
       ELSE IF r.t >= pnd.nextAttemptAt
       THEN IF d.ok
            THEN RetryDelivered(r2, idx)
            ELSE IF pnd.attemptsLeft > 1
            THEN [r2 EXCEPT
                    !.pending[idx].attemptsLeft = @ - 1,
                    !.pending[idx].nextAttemptAt =
                       r.t + RetryIntervalOf(r.opts)]
            ELSE RecordDrop([r2 EXCEPT !.pending = RemoveAt(@, idx)], a)
       ELSE r1)

\* let q = poisson(queriesPerSec, rng): with a rate of 0 the first product
\* p = rng() is below L = 1 and the count is 0
PoissonStep(r, d) ==
  LET q == IF r.opts.queryRatePerMin > 0 THEN d.q ELSE 0
  IN [r EXCEPT !.q = q, !.phase = IF q > 0 THEN "queries" ELSE "sample"]

\* Math.exp(-age / Math.max(1, ttlSec)) is 0 only when the exponent is
\* below the underflow threshold of a double
ExpUnderflow == 745

\* freshness(cached, t) <= 0
FreshnessIsZero(a, t) ==
  Max2(0, t - a.issuedAt) > ExpUnderflow * Max2(1, a.ttlSec)

\* freshness(a, now) = exp(-age / max(1, ttlSec)), times FreshScale; the
\* table is in steps of 1/600
Freshness(a, t) ==
  ExpTable[(Max2(0, t - a.issuedAt) * 600) \div Max2(1, a.ttlSec) + 1]

\* pfModel.observeRetrieval(cached, ...): one train call
ObserveRetrieval(r, a) ==
  IF HasPF(r) THEN [r EXCEPT !.pf = Append(@, <<"hit", a.id, r.t>>)] ELSE r

\* one pass of the query loop.  d.pick is the index biasedPick selects among
\* policy.entries(t); every weight is positive, so every index can be drawn.
QueryStep(r, d) ==
  LET e == PolicyEntries(r.policy, r.t)
      items == e.res
      choice == items[d.pick]
      g == PolicyGet(e.pol, choice.id, r.t)
      cached == g.res
      th == IF cached.threadKey # NoThread THEN cached.threadKey
            ELSE cached.id
      r1 == [r EXCEPT !.q = @ - 1,
                      !.phase = IF r.q > 1 THEN "queries" ELSE "sample"]
  IN IF Len(items) = 0
     THEN [r1 EXCEPT !.policy = e.pol, !.misses = @ + 1]
     ELSE IF cached # NoAlert
     THEN ObserveRetrieval(
            [r1 EXCEPT
               !.policy = g.pol,
               !.hits = @ + 1,
               !.lastHit = [id |-> cached.id, t |-> r.t],
               !.freshnessSum = @ + Freshness(cached, r.t),
               !.staleAccess = IF FreshnessIsZero(cached, r.t) THEN @ + 1
                               ELSE @,
               !.firstRetrievalByThread[th] = IF @ = Absent THEN r.t ELSE @,
               !.firstActionableByThread[th] =
                  IF r.firstRetrievalByThread[th] = Absent
                  THEN HighImpact(cached) ELSE @],
            cached)
     ELSE ObserveDrop([r1 EXCEPT !.policy = g.pol, !.misses = @ + 1], choice)

\* timeline.push({ t, cacheSize: policy.size(), hits, misses }) and the loop
\* header: i++, t += dt, i < steps
SampleStep(r) ==
  LET r1 == [r EXCEPT
               !.timeline = Append(@, [t |-> r.t,
                                       cacheSize |-> PolicySize(r.policy),
                                       hits |-> r.hits, misses |-> r.misses]),
               !.t = @ + 1]
  IN IF r.t + 1 >= StepsOf(r.opts) THEN [r1 EXCEPT !.phase = "done"]
     ELSE Normalize([r1 EXCEPT !.phase = "arrivals", !.arrIdx = 1])

\* the sum of the per-region dropped counts of regionStats
RECURSIVE SumDropped(_, _)
SumDropped(stats, gs) ==
  IF gs = {} THEN 0
  ELSE LET g == CHOOSE x \in gs : TRUE
       IN stats[g].dropped + SumDropped(stats, gs \ {g})

\* the sum of the per-region delivered counts of regionStats
RECURSIVE SumDelivered(_, _)
SumDelivered(stats, gs) ==
  IF gs = {} THEN 0
  ELSE LET g == CHOOSE x \in gs : TRUE
       IN stats[g].delivered + SumDelivered(stats, gs \ {g})

\* scenario.targetFirstDeliverySec
TargetFirstDeliverySec(scenario) ==
  IF scenario = "Urban" THEN 120 ELSE IF scenario = "Suburban" THEN 180
  ELSE 300

\* n / d when d is nonzero and 0 otherwise, as the pair of its terms
Ratio(n, d) == IF d # 0 THEN [num |-> n, den |-> d] ELSE [num |-> 0, den |-> 1]

\* the threads in firstRetrievalByThread
RetrievedThreads(r) ==
  {th \in ThreadKeys : r.firstRetrievalByThread[th] # Absent}

\* the threads in firstPushTimeByThread
PushedThreads(r) ==
  {th \in ThreadKeys : r.firstPushTimeByThread[th] # Absent}

\* the metrics computed from the counters r of a call with options opts; a
\* ratio is kept as numerator and denominator
MetricsOf(r, opts) ==
  LET totalRequests == r.hits + r.misses
      sla == TargetFirstDeliverySec(PickScenario(opts.scenario))
      threads == Max2(1, Cardinality(RetrievedThreads(r)))
      timely == Cardinality({th \in RetrievedThreads(r) :
                  r.firstRetrievalByThread[th] <= sla})
      actionableFirst == Cardinality({th \in RetrievedThreads(r) :
                            r.firstActionableByThread[th]})
      timelyPush == Cardinality({th \in PushedThreads(r) :
                      r.firstPushTimeByThread[th] <= sla})
  IN [cacheHitRate |-> Ratio(r.hits, totalRequests),
      deliveryRate |-> Ratio(r.delivered, opts.alerts),
      avgFreshness |-> Ratio(r.freshnessSum, r.hits * FreshScale),
      staleAccessRate |-> Ratio(r.staleAccess, totalRequests),
      redundancyIndex |-> Ratio(r.duplicateDelivered, r.delivered),
      actionabilityFirstRatio |-> [num |-> actionableFirst, den |-> threads],
      timelinessConsistency |-> Ratio(timely, threads),
      pushesSent |-> r.pushesSent,
      pushSuppressRate |-> Ratio(r.pushSuppressCount, r.delivered),
      pushDuplicateRate |-> Ratio(r.pushDuplicates, r.pushesSent),
      pushTimelyFirstRatio |->
        Ratio(timelyPush, Cardinality(PushedThreads(r)))]

\* the metrics of a run
Metrics(r) == MetricsOf(r, r.opts)

RatioNames ==
  {"cacheHitRate", "deliveryRate", "staleAccessRate", "redundancyIndex",
   "actionabilityFirstRatio", "timelinessConsistency", "pushSuppressRate",
   "pushDuplicateRate", "pushTimelyFirstRatio"}

\* what runSimulation returns: timeline, the counters behind the metrics
\* (metrics is MetricsOf these counters and the options of the call),
\* regionStats, issuedAlerts, deliveredAlerts, the PF state and the seed
Results(r) ==
  [timeline |-> r.timeline, delivered |-> r.delivered, hits |-> r.hits,
   misses |-> r.misses, staleAccess |-> r.staleAccess,
   duplicateDelivered |-> r.duplicateDelivered,
   pushesSent |-> r.pushesSent, pushSuppressCount |-> r.pushSuppressCount,
   pushDuplicates |-> r.pushDuplicates,
   firstRetrievalByThread |-> r.firstRetrievalByThread,
   firstActionableByThread |-> r.firstActionableByThread,
   firstPushTimeByThread |-> r.firstPushTimeByThread,
   regionStats |-> r.regionStats, issuedAlerts |-> r.issuedAlerts,
   deliveredAlerts |-> r.deliveredAlerts, pf |-> r.pf,
   seed |-> r.opts.seed, freshnessSum |-> r.freshnessSum]

(***************************************************************************)
(* Engine specification: one call of runSimulation; every draw of the      *)
(* seeded generators is a free choice.                                     *)
(***************************************************************************)
MaxAlerts == 3       \* alerts in a stream
MaxQueries == 2      \* queries answered in a run
MaxQueriesPerStep == 1

\* the probabilities the PF model returns, in halves
PFProbs == {0, 1, 2}

Unset == [wS |-> WUndefined, wU |-> WUndefined, wF |-> WUndefined]

BaseOpts ==
  [policy |-> "LRU", cacheSize |-> 1, wS |-> WUndefined, wU |-> WUndefined,
   wF |-> WUndefined, durationSec |-> 4, queryRatePerMin |-> 0,
   pfExplorationEpsilon |-> 0, pfRandomize |-> FALSE,
   pushRateLimitPerMin |-> 0, pushDedupWindowSec |-> 0, pushThreshold |-> 0,
   deliveryRetryIntervalSec |-> 0, deliveryMaxAttempts |-> 1,
   reliability |-> 1, seed |-> "spread", alerts |-> MaxAlerts,
   pfHashBuckets |-> 5, scenario |-> "Rural"]


\* the weight options of a run: left unset, or given as numbers
WeightOpts(policy) ==
  IF policy = "PriorityFresh"
  THEN {Unset, [wS |-> WNum(2), wU |-> WNum(3), wF |-> WNum(4)]}
  ELSE {Unset}

\* the policy and weight options of a run
PolicyOpts ==
  UNION {{[BaseOpts EXCEPT !.policy = PolicyNames[n],
                           !.wS = w.wS, !.wU = w.wU, !.wF = w.wF] :
            w \in WeightOpts(PolicyNames[n])} : n \in 1..4}

\* runs of one alert, issued at 1, that last beyond its ttl of 120 s, with
\* retries falling before, at and after the end of the ttl
TtlRuns ==
  {[BaseOpts EXCEPT !.policy = pn, !.durationSec = 123, !.alerts = 1,
                    !.deliveryMaxAttempts = m,
                    !.deliveryRetryIntervalSec = ri] :
     pn \in {"LRU", "PriorityFresh"}, m \in 2..3, ri \in {59, 119, 120}}

\* runs that fill the cache, retry deliveries and answer queries
CacheRuns ==
  {[o EXCEPT !.cacheSize = c, !.queryRatePerMin = 60,
             !.deliveryMaxAttempts = m, !.deliveryRetryIntervalSec = ri,
             !.seed = sd] :
     o \in PolicyOpts, c \in 1..MaxCap, m \in 1..2, ri \in {0, 2},
     sd \in {"spread", "tail"}}


\* push-enabled runs over more than one rate window, without queries
PushRuns ==
  {[o EXCEPT !.cacheSize = 2, !.durationSec = h,
             !.pushRateLimitPerMin = rl, !.pushDedupWindowSec = dw,
             !.pushThreshold = tau, !.pfExplorationEpsilon = eps,
             !.seed = sd] :
     o \in {x \in PolicyOpts : x.policy \in {"LRU", "PriorityFresh"}
                                /\ (x.policy = "LRU" \/ x.wS.tag = "num")},
     h \in {63}, rl \in 0..2, dw \in {0 - 1, 0, 1, 60}, tau \in {0, 2},
     eps \in {0, 1}, sd \in {"spread", "late", "edge"}}

\* runs of one alert, issued at 1, that answer queries in the seconds
\* before and after the end of its ttl of 120 s
StaleRuns ==
  {[o EXCEPT !.durationSec = 123, !.alerts = 1, !.queryRatePerMin = 60,
             !.seed = "quiet"] : o \in PolicyOpts}

\* push-enabled runs of the policies that have no PF model
PlainPushRuns ==
  {[BaseOpts EXCEPT !.policy = pn, !.cacheSize = 2, !.durationSec = 63,
                    !.pushRateLimitPerMin = rl, !.pushDedupWindowSec = dw,
                    !.pushThreshold = tau, !.pfExplorationEpsilon = 1,
                    !.seed = sd] :
     pn \in {"TTLOnly", "PAFTinyLFU"}, rl \in 1..2, dw \in {0, 60},
     tau \in 0..1, sd \in {"spread", "late"}}

RunOptions ==
  CacheRuns \cup TtlRuns \cup StaleRuns \cup PlainPushRuns
  \cup {o \in PushRuns : o.policy = "LRU" => o.pfExplorationEpsilon = 0}

EngineKeys == {"A1", "A2", "A3", "A4", "Flood:R1", "Shelter:R2:7"}

AllKeys == PolicyKeys \cup EngineKeys

\* two hash assignments for the engine's keys: every key on one counter, and
\* ids apart from thread keys
CollidingHash == [k \in AllKeys |-> <<0, 0, 0, 0>>]

SpreadHash ==
  [k \in AllKeys |-> IF k \in {"Flood:R1", "Shelter:R2:7"} THEN <<1, 1, 1, 1>>
                     ELSE IF k \in {"A1", "A3"} THEN <<0, 1, 0, 1>>
                     ELSE <<0, 0, 0, 0>>]

IdlePolicy == NewLRU(1)

InitRun ==
  /\ run \in {Normalize(NewRun(o)) : o \in RunOptions}
  /\ hashOf \in {CollidingHash, SpreadHash}
  /\ run.opts.policy # "PAFTinyLFU" => hashOf = CollidingHash
  /\ run2 = NoRun
  /\ tape = <<>>
  /\ sk = NoSketch
  /\ pfm = NoModel
  /\ synth = NoSynth
  /\ batch = NoBatch
  /\ pol = IdlePolicy
  /\ now = 0
  /\ last = Call("new", NoAlert, 0, IdlePolicy, NoAlert, FALSE, <<>>)

\* the draws of PriorityForecastModel.score under explore: the probability,
\* and the exploration term when explorationEpsilon > 0
PFDrawSet(r) ==
  [ph : PFProbs,
   ex : IF r.opts.pfExplorationEpsilon > 0 THEN {0 - 1, 0, 1} ELSE {0}]

\* the draws the scan of PriorityFresh.put makes: one per cached alert when
\* the cache is full and the scores are numbers
PutDraws(r) ==
  LET m == PurgeMap(r.policy.map, r.t)
  IN IF HasPF(r) /\ r.opts.wS.tag = "num" /\ Len(m) >= r.policy.cap
     THEN [1..Len(m) -> PFDrawSet(r)]
     ELSE {NoDraws}

FailedDraw == [ok |-> FALSE, scores |-> NoDraws, pp |-> 0, explore |-> FALSE]

\* the draws of one attemptDelivery: rng() < effReliability, the scores of
\* the put, the probability used by the push decision and rng() < eps.
\* rng() is in [0, 1): the draw cannot succeed when effReliability is 0 and
\* cannot fail when it is 1.  reliability in the options of the model is
\* effReliability = clamp01(opts.reliability * seg.reliability *
\* localFactor) in halves; 2 is a run in which the regions' localFactor
\* lifts the product to 1
DeliveryDraws(r) ==
  (IF r.opts.reliability >= 2 THEN {} ELSE {FailedDraw}) \cup
  (IF r.opts.reliability <= 0 THEN {}
   ELSE [ok : {TRUE}, scores : PutDraws(r),
         pp : IF HasPF(r) /\ RateLimitOf(r.opts) > 0 THEN PFProbs ELSE {0},
         explore : IF HasPF(r) /\ RateLimitOf(r.opts) > 0
                      /\ r.opts.pfExplorationEpsilon > 0
                   THEN BOOLEAN ELSE {FALSE}])

\* the counts poisson(queriesPerSec, rng) returns; the seed "quiet" is the
\* seed whose draws give a count of 0 in every step before the last five
PoissonDraws(r) ==
  {[q |-> k] : k \in {j \in 0..MaxQueriesPerStep :
                        j > 0 => /\ r.hits + r.misses < MaxQueries
                                 /\ (r.opts.seed = "quiet"
                                       => r.t + 5 >= r.opts.durationSec)}}

\* the indices biasedPick returns
QueryDraws(r) ==
  {[pick |-> k] : k \in 1..Max2(1, Len(PolicyEntries(r.policy, r.t).res))}

Arrive ==
  /\ run.phase = "arrivals"
  /\ \E d \in DeliveryDraws(run) : run' = ArriveStep(run, d)
  /\ UNCHANGED <<pol, now, last, hashOf, run2, tape, sk, batch, pfm, synth>>

Retry ==
  /\ run.phase = "retries"
  /\ \E d \in DeliveryDraws(run) : run' = RetryStep(run, d)
  /\ UNCHANGED <<pol, now, last, hashOf, run2, tape, sk, batch, pfm, synth>>

Poisson ==
  /\ run.phase = "poisson"
  /\ \E d \in PoissonDraws(run) : run' = PoissonStep(run, d)
  /\ UNCHANGED <<pol, now, last, hashOf, run2, tape, sk, batch, pfm, synth>>

Query ==
  /\ run.phase = "queries"
  /\ \E d \in QueryDraws(run) : run' = QueryStep(run, d)
  /\ UNCHANGED <<pol, now, last, hashOf, run2, tape, sk, batch, pfm, synth>>

Sample ==
  /\ run.phase = "sample"
  /\ run' = SampleStep(run)
  /\ UNCHANGED <<pol, now, last, hashOf, run2, tape, sk, batch, pfm, synth>>

NextRun == Arrive \/ Retry \/ Poisson \/ Query \/ Sample

SpecRun == InitRun /\ [][NextRun]_vars

(***************************************************************************)
(* Two calls of runSimulation with the same options, one after the other.  *)
(* The generators seeded from opts.seed give the second call the values    *)
(* they gave the first: while the second call is in the state the first    *)
(* call was in, it replays the first call's draws.  Math.random gives the  *)
(* second call values of its own.                                          *)
(***************************************************************************)
\* variant: pfRng is Math.random whatever the options
UnseededPfRng(opts) == FALSE

\* const pfRng = opts.pfRandomize ? Math.random : mulberry32(...)
SeededPfRng(opts) == ~opts.pfRandomize

\* one step of the loop body at the position of r
StepOf(r, d) ==
  IF r.phase = "arrivals" THEN ArriveStep(r, d)
  ELSE IF r.phase = "retries" THEN RetryStep(r, d)
  ELSE IF r.phase = "poisson" THEN PoissonStep(r, d)
  ELSE IF r.phase = "queries" THEN QueryStep(r, d)
  ELSE SampleStep(r)

DrawsOf(r) ==
  IF r.phase \in {"arrivals", "retries"} THEN DeliveryDraws(r)
  ELSE IF r.phase = "poisson" THEN PoissonDraws(r)
  ELSE IF r.phase = "queries" THEN QueryDraws(r)
  ELSE {NoDraw}

\* d agrees with the first call's draw td on every value that does not come
\* from Math.random: all of it when pfRng is seeded, all but the exploration
\* terms of PriorityForecastModel.score when pfRng is Math.random
SameSeeded(r, d, td) ==
  IF r.phase \in {"arrivals", "retries"} /\ HasPF(r)
       /\ ~SeededPfRng(r.opts)
  THEN /\ d.ok = td.ok
       /\ d.pp = td.pp
       /\ d.explore = td.explore
       /\ DOMAIN d.scores = DOMAIN td.scores
       /\ \A i \in DOMAIN d.scores : d.scores[i].ph = td.scores[i].ph
  ELSE d = td

\* once the two calls differ, the generator seeded from opts.seed still gives
\* the second call the same values at the same position of the loop: the
\* same delivery and exploration outcome and the same query count.  What a
\* value selects depends on the state: the probabilities, and the entry
\* biasedPick returns unless the entries are the same.
SamePosition(r, pre, d, td) ==
  IF r.phase \in {"arrivals", "retries"}
  THEN d.ok = td.ok /\ d.explore = td.explore
  ELSE IF r.phase = "poisson" THEN d.q = td.q
  ELSE IF r.phase = "queries"
  THEN PolicyEntries(r.policy, r.t).res = PolicyEntries(pre.policy, pre.t).res
         => d = td
  ELSE TRUE

\* runs that fill a cache of two, evict and answer queries
DetOptions ==
  {[o EXCEPT !.cacheSize = 2, !.queryRatePerMin = 60,
             !.pfExplorationEpsilon = eps, !.pfRandomize = rnd,
             !.reliability = 2] :
     o \in {x \in PolicyOpts : x.policy \in {"LRU", "PriorityFresh"}
                                /\ (x.policy = "LRU" \/ x.wS.tag = "num")},
     eps \in {0, 1}, rnd \in BOOLEAN}

InitDet ==
  /\ run \in {Normalize(NewRun(o)) : o \in DetOptions}
  /\ run2 = run
  /\ tape = <<>>
  /\ sk = NoSketch
  /\ pfm = NoModel
  /\ synth = NoSynth
  /\ batch = NoBatch
  /\ hashOf = CollidingHash
  /\ pol = IdlePolicy
  /\ now = 0
  /\ last = Call("new", NoAlert, 0, IdlePolicy, NoAlert, FALSE, <<>>)

FirstCall ==
  /\ run.phase # "done"
  /\ \E d \in DrawsOf(run) :
       /\ run' = StepOf(run, d)
       /\ tape' = Append(tape, [pre |-> run, d |-> d])
  /\ UNCHANGED <<pol, now, last, hashOf, run2, sk, batch, pfm, synth>>

SecondCall ==
  /\ run.phase = "done"
  /\ run2.phase # "done"
  /\ \E d \in DrawsOf(run2) :
       /\ (tape # <<>> /\ Head(tape).pre = run2)
            => SameSeeded(run2, d, Head(tape).d)
       /\ (tape # <<>> /\ Head(tape).pre # run2
              /\ Head(tape).pre.phase = run2.phase)
            => SamePosition(run2, Head(tape).pre, d, Head(tape).d)
       /\ run2' = StepOf(run2, d)
  /\ tape' = IF tape = <<>> THEN tape ELSE Tail(tape)
  /\ UNCHANGED <<pol, now, last, hashOf, run, sk, batch, pfm, synth>>

NextDet == FirstCall \/ SecondCall

SpecDet == InitDet /\ [][NextDet]_vars

(***************************************************************************)
(* The comparison orchestrators (multiPolicyBatch.ts): runMultiPolicyBatch *)
(* runs the four policies on the same options; runCombinedComparison calls *)
(* it for every cell of device x network profiles.  There is no try/catch: *)
(* an exception thrown by a run leaves the orchestrator.                   *)
(***************************************************************************)
\* new Array(n) throws a RangeError for n > 2^32 - 1.  The hash bucket
\* count of the options is held as its binary logarithm (5 for the default
\* 32), since the limit is beyond the integers of the model.
MaxArrayBits == 32

\* new PriorityForecastModel(...) allocates new Array(featureCount) with
\* featureCount = 23 + Math.max(0, Math.floor(hashBucketCount)): with
\* hashBucketCount = 2^b that is above 2^32 - 1 exactly when b >= 32
RunThrows(opts) ==
  /\ opts.policy = "PriorityFresh"
  /\ opts.pfHashBuckets >= MaxArrayBits

Thrown == [phase |-> "thrown"]

\* a call of runSimulation(opts), up to the main loop
StartRun(opts) == IF RunThrows(opts) THEN Thrown ELSE Normalize(NewRun(opts))

\* variant: every policy runs on a seed of its own
MultiOptsOwnSeed(base, policy) ==
  [base EXCEPT !.policy = policy, !.seed = IF policy = "LRU" THEN @ ELSE "tail"]

\* { ...baseOptions, policy, replicates: 1, seedMode: 'Fixed' }
MultiOpts(base, policy) == [base EXCEPT !.policy = policy]

\* { ...baseOptions, cacheSize: deviceProfile.cacheSize,
\*   reliability: networkProfile.reliability }
CellOpts(base, device, network) ==
  [base EXCEPT !.cacheSize = device, !.reliability = network]

\* the device profiles (cache sizes) and network profiles (reliabilities,
\* in halves) of the model
DeviceProfiles == <<1, 2>>

NetworkProfiles == <<2>>

\* the cells of runCombinedComparison, devices in the outer loop
CombinedCells(base) ==
  [n \in 1..(Len(DeviceProfiles) * Len(NetworkProfiles)) |->
     CellOpts(base,
              DeviceProfiles[((n - 1) \div Len(NetworkProfiles)) + 1],
              NetworkProfiles[((n - 1) % Len(NetworkProfiles)) + 1])]

MultiBases ==
  {[BaseOpts EXCEPT !.cacheSize = c, !.seed = sd, !.reliability = rel,
                    !.pfHashBuckets = hb] :
     c \in 1..MaxCap, sd \in {"spread", "tail"}, rel \in {1, 2},
     hb \in {5, MaxArrayBits}}

NewBatch(kind, base) ==
  [kind |-> kind, base |-> base,
   cells |-> IF kind = "multi" THEN <<base>> ELSE CombinedCells(base),
   c |-> 1, i |-> 1, runs |-> <<>>, comparisons |-> <<>>,
   status |-> "running"]

InitMulti ==
  /\ batch \in {NewBatch("multi", b) : b \in MultiBases}
               \cup {NewBatch("combined", b) :
                       b \in {x \in MultiBases :
                                x.cacheSize = 1 /\ x.reliability = 2}}
  /\ run = StartRun(MultiOpts(batch.cells[1], PolicyNames[1]))
  /\ hashOf = CollidingHash
  /\ run2 = NoRun
  /\ tape = <<>>
  /\ sk = NoSketch
  /\ pfm = NoModel
  /\ synth = NoSynth
  /\ pol = IdlePolicy
  /\ now = 0
  /\ last = Call("new", NoAlert, 0, IdlePolicy, NoAlert, FALSE, <<>>)

\* one step of the run in progress
MultiStep ==
  /\ batch.status = "running"
  /\ run.phase \notin {"done", "thrown"}
  /\ \E d \in DrawsOf(run) : run' = StepOf(run, d)
  /\ UNCHANGED <<pol, now, last, hashOf, run2, tape, sk, batch, pfm, synth>>

\* runs.push({ policy, result }) and the next pass of the loops: the next
\* policy, or comparisons.push and the next cell, or the return
MultiCollect ==
  /\ batch.status = "running"
  /\ run.phase = "done"
  /\ LET runs1 == Append(batch.runs, [policy |-> PolicyNames[batch.i],
                                      result |-> Results(run)])
         done1 == Append(batch.comparisons,
                         [cell |-> batch.c, runs |-> runs1])
     IN IF batch.i < Len(PolicyNames)
        THEN /\ batch' = [batch EXCEPT !.runs = runs1, !.i = @ + 1]
             /\ run' = StartRun(MultiOpts(batch.cells[batch.c],
                                          PolicyNames[batch.i + 1]))
        ELSE IF batch.c < Len(batch.cells)
        THEN /\ batch' = [batch EXCEPT !.runs = <<>>, !.i = 1, !.c = @ + 1,
                                       !.comparisons = done1]
             /\ run' = StartRun(MultiOpts(batch.cells[batch.c + 1],
                                          PolicyNames[1]))
        ELSE /\ batch' = [batch EXCEPT !.runs = runs1, !.comparisons = done1,
                                       !.status = "returned"]
             /\ run' = NoRun
  /\ UNCHANGED <<pol, now, last, hashOf, run2, tape, sk, pfm, synth>>

\* the exception of a run propagates out of the orchestrator
MultiThrow ==
  /\ batch.status = "running"
  /\ run.phase = "thrown"
  /\ batch' = [batch EXCEPT !.status = "thrown"]
  /\ UNCHANGED <<pol, now, last, hashOf, run, run2, tape, sk, pfm, synth>>

NextMulti == MultiStep \/ MultiCollect \/ MultiThrow

SpecMulti == InitMulti /\ [][NextMulti]_vars

(***************************************************************************)
(* runBatch (batch.ts): replicates runs of the engine on seeds derived     *)
(* from the base seed.                                                     *)
(***************************************************************************)
MaxReplicates == 3   \* config.replicates is at most this

\* Math.max(1, Math.floor(config.replicates || 1))
SanitizeReplicates(n) == Max2(1, n)

\* the decimal string of a one-digit number
Decimal(n) == <<"0", "1", "2", "3", "4", "5", "6", "7", "8", "9">>[n + 1]

\* variant: the jitter suffix is the 0-based index
DeriveSeedFromIndex(baseSeed, index, mode, uuid) ==
  IF mode = "Fixed" THEN baseSeed
  ELSE IF mode = "DeterministicJitter"
  THEN baseSeed \o "#" \o Decimal(index)
  ELSE baseSeed \o "#" \o uuid

\* deriveSeed(baseSeed, index, mode); uuid is what randomSeedString returns
DeriveSeed(baseSeed, index, mode, uuid) ==
  IF mode = "Fixed" THEN baseSeed
  ELSE IF mode = "DeterministicJitter"
  THEN baseSeed \o "#" \o Decimal(index + 1)
  ELSE baseSeed \o "#" \o uuid

SeedModes == {"Fixed", "DeterministicJitter", "Randomized"}

\* the strings crypto.randomUUID() returns in the model
Uuids == {"u1", "u2"}

\* options outside the documented domain: a negative cacheSize, an empty
\* seed, a scenario name and a policy name outside the catalogue
InvalidBases ==
  {[o EXCEPT !.reliability = 2] :
     o \in {[BaseOpts EXCEPT !.cacheSize = 0 - 1],
            [BaseOpts EXCEPT !.cacheSize = 0 - 1, !.policy = "PAFTinyLFU"],
            [BaseOpts EXCEPT !.seed = ""],
            [BaseOpts EXCEPT !.scenario = "Nowhere"],
            [BaseOpts EXCEPT !.policy = "Bogus"]}}

\* the base options of the batches: one whose deliveries can fail, and
\* ones whose deliveries all succeed
BatchBases ==
  {[BaseOpts EXCEPT !.alerts = 2],
   [BaseOpts EXCEPT !.seed = "tail", !.reliability = 2]}
  \cup {[BaseOpts EXCEPT !.policy = "PriorityFresh", !.reliability = 2,
                         !.pfHashBuckets = hb] : hb \in {5, MaxArrayBits}}
  \cup InvalidBases

\* metricKeys
MetricKeys ==
  <<"cacheHitRate", "deliveryRate", "avgFreshness", "staleAccessRate",
    "redundancyIndex", "actionabilityFirstRatio", "timelinessConsistency",
    "pushesSent", "pushSuppressRate", "pushDuplicateRate",
    "pushTimelyFirstRatio">>

\* numbers are fractions num / den with den > 0, kept in lowest terms
RECURSIVE Gcd(_, _)
Gcd(x, y) == IF y = 0 THEN x ELSE Gcd(y, x % y)

Abs(x) == IF x < 0 THEN 0 - x ELSE x

Frac(n, d) ==
  LET g == Gcd(Abs(n), d)
  IN [num |-> n \div g, den |-> d \div g]

FracAdd(x, y) == Frac(x.num * y.den + y.num * x.den, x.den * y.den)

FracSub(x, y) == Frac(x.num * y.den - y.num * x.den, x.den * y.den)

FracMul(x, y) == Frac(x.num * y.num, x.den * y.den)

FracDivInt(x, n) == Frac(x.num, x.den * n)

FracZero == [num |-> 0, den |-> 1]

\* metrics[key] ?? 0
MetricValue(metrics, key) ==
  IF key = "pushesSent" THEN Frac(metrics.pushesSent, 1)
  ELSE Frac(metrics[key].num, metrics[key].den)

\* results.reduce((acc, r) => acc + (r.metrics[key] ?? 0), 0)
RECURSIVE SumMetric(_, _, _)
SumMetric(results, key, n) ==
  IF n = 0 THEN FracZero
  ELSE FracAdd(SumMetric(results, key, n - 1),
               MetricValue(results[n], key))

\* mean[key]
MeanOf(results, key) ==
  IF Len(results) # 0
  THEN FracDivInt(SumMetric(results, key, Len(results)), Len(results))
  ELSE FracZero

\* results.reduce((acc, r) => acc + delta * delta, 0) with
\* delta = (r.metrics[key] ?? 0) - mean[key]
RECURSIVE SumSquares(_, _, _, _)
SumSquares(results, key, mean, n) ==
  IF n = 0 THEN FracZero
  ELSE LET delta == FracSub(MetricValue(results[n], key), mean)
       IN FracAdd(SumSquares(results, key, mean, n - 1),
                  FracMul(delta, delta))

\* variant: the sum of squares is divided by count
PopulationDivisor(count) == count

\* the divisor of the variance: count - 1
VarianceDivisor(count) == count - 1

\* Math.max(variance, 0)
FracMax0(x) == IF x.num < 0 THEN FracZero ELSE x

\* stdev[key]: 0 when count <= 1, and Math.sqrt(Math.max(variance, 0))
\* otherwise.  The square root is kept as its radicand, sqrtOf.
StdevOf(results, key) ==
  LET count == Len(results)
  IN IF count <= 1 THEN [zero |-> TRUE, sqrtOf |-> FracZero]
     ELSE [zero |-> FALSE,
           sqrtOf |-> FracMax0(FracDivInt(
                        SumSquares(results, key, MeanOf(results, key), count),
                        VarianceDivisor(count)))]

\* aggregateMetrics(results); results[n] is the metrics of the n-th result
AggregateMetrics(results) ==
  [mean |-> [k \in SeqToSet(MetricKeys) |-> MeanOf(results, k)],
   stdev |-> [k \in SeqToSet(MetricKeys) |-> StdevOf(results, k)]]

\* the metrics of the runs collected by runBatch
BatchMetrics ==
  [n \in 1..Len(batch.runs) |->
     MetricsOf(batch.runs[n].result, batch.passed[n])]

\* const aggregate = aggregateMetrics(runs.map((r) => r.result)): the
\* aggregate of the record runBatch returns
BatchAggregate == AggregateMetrics(BatchMetrics)

\* runBatch(baseOptions, config) before its loop; config is kept as given,
\* replicates and seedMode are the sanitized values, i the loop index and
\* passed the options handed to runSimulation so far
NewRunBatch(base, config) ==
  [kind |-> "batch", base |-> base, config |-> config,
   replicates |-> SanitizeReplicates(config.replicates),
   seedMode |-> config.seedMode, i |-> 0, seed |-> "",
   runs |-> <<>>, passed |-> <<>>, status |-> "running"]

\* const seed = deriveSeed(baseSeed, i, seedMode);
\* runSimulation({ ...baseOptions, seed })
BatchCall(b, uuid) ==
  LET seed == DeriveSeed(b.base.seed, b.i, b.seedMode, uuid)
  IN [b EXCEPT !.seed = seed,
               !.passed = Append(@, [b.base EXCEPT !.seed = seed])]

InitBatch ==
  /\ \E base \in BatchBases, n \in (0 - 1)..MaxReplicates,
        mode \in SeedModes, uuid \in Uuids :
       /\ mode # "Randomized" => uuid = "u1"
       /\ batch = BatchCall(NewRunBatch(base, [replicates |-> n,
                                                seedMode |-> mode]), uuid)
  /\ run = StartRun(batch.passed[1])
  /\ hashOf = CollidingHash
  /\ run2 = NoRun
  /\ tape = <<>>
  /\ sk = NoSketch
  /\ pfm = NoModel
  /\ synth = NoSynth
  /\ pol = IdlePolicy
  /\ now = 0
  /\ last = Call("new", NoAlert, 0, IdlePolicy, NoAlert, FALSE, <<>>)

\* one step of the run in progress
BatchStep ==
  /\ batch.status = "running"
  /\ run.phase \notin {"done", "thrown"}
  /\ \E d \in DrawsOf(run) : run' = StepOf(run, d)
  /\ UNCHANGED <<pol, now, last, hashOf, run2, tape, sk, batch, pfm, synth>>

\* runs.push({ seed, result }), i++, and the next call or the return; the
\* aggregate returned is BatchAggregate
BatchCollect ==
  /\ batch.status = "running"
  /\ run.phase = "done"
  /\ LET b1 == [batch EXCEPT
                  !.runs = Append(@, [seed |-> batch.seed,
                                      result |-> Results(run)]),
                  !.i = @ + 1]
     IN IF b1.i < b1.replicates
        THEN \E uuid \in Uuids :
               /\ b1.seedMode # "Randomized" => uuid = "u1"
               /\ batch' = BatchCall(b1, uuid)
               /\ run' = StartRun(batch'.passed[Len(batch'.passed)])
        ELSE /\ batch' = [b1 EXCEPT !.status = "returned"]
             /\ run' = NoRun
  /\ UNCHANGED <<pol, now, last, hashOf, run2, tape, sk, pfm, synth>>

\* the exception of a run propagates out of runBatch
BatchThrow ==
  /\ batch.status = "running"
  /\ run.phase = "thrown"
  /\ batch' = [batch EXCEPT !.status = "thrown"]
  /\ UNCHANGED <<pol, now, last, hashOf, run, run2, tape, sk, pfm, synth>>

NextBatch == BatchStep \/ BatchCollect \/ BatchThrow

SpecBatch == InitBatch /\ [][NextBatch]_vars

(***************************************************************************)
(* The aging FrequencySketch (count-min with 4-bit ceiling and periodic    *)
(* halving) and the specification of the two sketches: any sequence of     *)
(* increment calls on a new sketch, under any hash assignment.             *)
(***************************************************************************)
MaxIncrements == 21  \* increment calls made on a sketch

\* if (this.counters[i][index] < 15)
AgingCeiling == 15

\* new FrequencySketch(expectedItems): width, depth 4, size, sampleSize,
\* tableMask and the zeroed counter tables
NewAging(expectedItems) ==
  LET width == Max2(4, (expectedItems + 3) \div 4)
  IN [kind |-> "aging",
      rows |-> [l \in 1..4 |-> [i \in 0..(width - 1) |-> 0]],
      size |-> 0, sampleSize |-> 10 * expectedItems,
      tableMask |-> width - 1]

\* the Uint16 sketch of frequency-sketch.ts, with the same fields
NewPlain ==
  [kind |-> "plain", rows |-> NewSketch, size |-> 0, sampleSize |-> 0,
   tableMask |-> SketchWidth - 1]

\* hashes[i] & this.tableMask, for a width that is a power of two
AgingIndex(s, key, l) == hashOf[key][l] % (s.tableMask + 1)

\* variant: the counters saturate one below the ceiling
AgingBumpEarly(c) == IF c < AgingCeiling - 1 THEN c + 1 ELSE c

\* if (counters[i][index] < 15) counters[i][index]++
AgingBump(c) == IF c < AgingCeiling THEN c + 1 ELSE c

\* reset(): every counter is halved and size returns to 0
AgingReset(s) ==
  [s EXCEPT !.rows = [l \in 1..4 |->
                        [i \in DOMAIN s.rows[l] |-> s.rows[l][i] \div 2]],
            !.size = 0]

\* increment(key) of the aging sketch
AgingIncrement(s, key) ==
  LET s1 == [s EXCEPT
               !.rows = [l \in 1..4 |->
                           [s.rows[l] EXCEPT ![AgingIndex(s, key, l)] =
                                                 AgingBump(@)]],
               !.size = @ + 1]
  IN IF s1.size >= s1.sampleSize THEN AgingReset(s1) ELSE s1

\* estimate(key) of the aging sketch: min starts at 15
AgingEstimate(s, key) ==
  Min2(Min2(AgingCeiling, s.rows[1][AgingIndex(s, key, 1)]),
       Min2(Min2(s.rows[2][AgingIndex(s, key, 2)],
                 s.rows[3][AgingIndex(s, key, 3)]),
            s.rows[4][AgingIndex(s, key, 4)]))

\* increment and estimate of either sketch
AnyIncrement(s, key) ==
  IF s.kind = "aging" THEN AgingIncrement(s, key)
  ELSE [s EXCEPT !.rows = SketchIncrement(s.rows, key)]

AnyEstimate(s, key) ==
  IF s.kind = "aging" THEN AgingEstimate(s, key)
  ELSE SketchEstimate(s.rows, key)

\* the greatest value a counter of s holds
CeilingOf(s) == IF s.kind = "aging" THEN AgingCeiling ELSE Uint16 - 1

SketchKeys == {"A1", "A2"}

\* the sketches under test: sampleSize 10 (aged after ten increments) and
\* sampleSize 20 (a counter reaches the ceiling first), and the Uint16 one
NewSketches == {NewAging(1), NewAging(2), NewPlain}

\* sk.obj is the sketch, sk.calls[k] the number of increment(k) calls
\* made, sk.aged whether reset() has run
InitSketch ==
  /\ sk \in {[kind |-> "test", obj |-> o, calls |-> [k \in SketchKeys |-> 0],
              aged |-> FALSE] : o \in NewSketches}
  /\ hashOf \in [SketchKeys -> HashVals]
  /\ pol = IdlePolicy
  /\ now = 0
  /\ last = Call("new", NoAlert, 0, IdlePolicy, NoAlert, FALSE, <<>>)
  /\ run = NoRun
  /\ run2 = NoRun
  /\ tape = <<>>
  /\ batch = NoBatch
  /\ pfm = NoModel
  /\ synth = NoSynth

Increment(key) ==
  /\ sk.calls["A1"] + sk.calls["A2"] < MaxIncrements
  /\ sk' = [sk EXCEPT
              !.obj = AnyIncrement(sk.obj, key),
              !.calls[key] = @ + 1,
              !.aged = @ \/ (sk.obj.kind = "aging"
                               /\ sk.obj.size + 1 >= sk.obj.sampleSize)]
  /\ UNCHANGED <<pol, now, last, hashOf, run, run2, tape, batch, pfm, synth>>

NextSketch == \E key \in SketchKeys : Increment(key)

SpecSketch == InitSketch /\ [][NextSketch]_vars

(***************************************************************************)
(* PriorityForecastModel (core/events.ts), on its own.  Numbers are in     *)
(* hundredths.  An entry of weights or g2 is kept as the number of updates *)
(* made to it (5 for an entry copied from an initial state): the values    *)
(* are functions of the calls, the lengths are what is modelled exactly.   *)
(* The environment has no regions, so every lookup misses.                 *)
(***************************************************************************)
MaxBuckets == 2   \* opts.hashBucketCount is at most this
MaxTrain == 2     \* train calls made on one model
MaxDraws == 2     \* calls of the model's rng made on one model

\* Math.max(0, Math.floor(opts?.hashBucketCount ?? 32))
HashBucketCount(option) == Max2(0, option)

\* 13 base + 7 anomaly + 3 time and updateNo + hashBucketCount
FeatureCount(buckets) == 13 + 7 + 3 + buckets

\* new Array(n).fill(v)
Filled(n, v) == [i \in 1..n |-> v]

\* variant: the vectors of an initial state are taken whatever their length
KeepsInitAlways(vector, featureCount) == TRUE

\* init?.weights?.length === featureCount
KeepsInit(vector, featureCount) == Len(vector) = featureCount

NoInitialState == [given |-> FALSE, weights |-> <<>>, g2 |-> <<>>]

\* new PriorityForecastModel(environment, weatherHistory, anomalyHistory,
\* { hashBucketCount: option, initialState: init })
NewModel(option, init) ==
  LET buckets == HashBucketCount(option)
      featureCount == FeatureCount(buckets)
  IN [kind |-> "pf", hashBucketCount |-> buckets,
      weights |-> IF init.given /\ KeepsInit(init.weights, featureCount)
                  THEN init.weights ELSE Filled(featureCount, 0),
      g2 |-> IF init.given /\ KeepsInit(init.g2, featureCount)
             THEN init.g2 ELSE Filled(featureCount, 0),
      features |-> <<>>, trained |-> 0, option |-> option, init |-> init,
      explorationEpsilon |-> 0, rngCalls |-> 0]

\* getState(): featureCount is weights.length
GetState(m) ==
  [weights |-> m.weights, g2 |-> m.g2, featureCount |-> Len(m.weights),
   hashBucketCount |-> m.hashBucketCount]

Clamp01(x) == IF x < 0 THEN 0 ELSE IF x > 100 THEN 100 ELSE x

\* this.explorationEpsilon = clamp01(opts?.explorationEpsilon ?? 0), in
\* hundredths
WithEpsilon(m, epsilon) == [m EXCEPT !.explorationEpsilon = Clamp01(epsilon)]

\* variant: the exploration draw is made whether or not explore is set
ExploreDrawsAlways(m, explore, d1) ==
  IF m.explorationEpsilon > 0
  THEN (IF d1 < m.explorationEpsilon THEN 2 ELSE 1)
  ELSE 0

\* the calls of this.rng() one score call makes: if (opts?.explore &&
\* this.explorationEpsilon > 0 && this.rng() < this.explorationEpsilon)
\* exploration = (this.rng() - 0.5) * ...; d1 is the first value drawn, in
\* hundredths
ExploreDraws(m, explore, d1) ==
  IF explore /\ m.explorationEpsilon > 0
  THEN (IF d1 < m.explorationEpsilon THEN 2 ELSE 1)
  ELSE 0

\* severityNumeric(value)
SeverityNumeric(value) ==
  IF value = "Extreme" THEN 100
  ELSE IF value = "Severe" THEN 75
  ELSE IF value = "Moderate" THEN 45
  ELSE IF value = "Minor" THEN 25
  ELSE 40

\* the buckets after the items from position i on are added: an empty item
\* is skipped, the others add 1 / n to bucket hashString(s) % count
RECURSIVE AddItems(_, _, _, _)
AddItems(buckets, items, i, n) ==
  IF i > Len(items) THEN buckets
  ELSE AddItems(IF items[i] = "" THEN buckets
                ELSE [buckets EXCEPT ![(hashOf[items[i]] % Len(buckets)) + 1]
                                       = @ + (100 \div n)],
                items, i + 1, n)

\* hashedFeatures(items)
HashedFeatures(m, items) ==
  LET count == m.hashBucketCount
      buckets == Filled(count, 0)
  IN IF count <= 0 THEN buckets
     ELSE AddItems(buckets, items, 1, Max2(1, Len(items)))

\* deriveFeatures(inputs): 23 entries, then the hashes.  sin and cos of the
\* time of day are 0 and 1 to two decimals at the times of the model
DeriveFeatures(inputs) ==
  LET alertReliability ==
        Clamp01((inputs.historicalAccuracy * 50
                 + (100 - inputs.falseAlarmRate) * 25
                 + (100 - inputs.diversionRate) * 15
                 + inputs.accuracyTrend * 10) \div 100)
  IN <<100, inputs.severity, inputs.urgency, inputs.ttl, inputs.freshness,
       inputs.regionSeverity, inputs.localReliability, inputs.floodFrequency,
       inputs.rainfallMean, inputs.rainfallVolatility, inputs.drainageRisk,
       inputs.shelterDemand, inputs.baseScoreNorm,
       inputs.falseAlarmRate, inputs.diversionRate,
       inputs.historicalAccuracy, inputs.leadTimeNorm,
       inputs.underestimationRate, inputs.overestimationRate,
       alertReliability,
       0, 100, Clamp01((inputs.updateNo * 100) \div 4)>>
     \o inputs.hashes

\* the inputs shared by buildFeatures and buildFeaturesFromSample when the
\* region, weather and anomaly data are missing
DefaultInputs(a, fresh, baseScore, hashes) ==
  [severity |-> SeverityNumeric(a.severity),
   urgency |-> IF a.urgency = "Immediate" THEN 100 ELSE 0,
   ttl |-> Clamp01((a.ttlSec * 100) \div 3600),
   freshness |-> Clamp01(fresh),
   regionSeverity |-> 40, localReliability |-> 50, floodFrequency |-> 30,
   rainfallMean |-> 50, rainfallVolatility |-> 40, drainageRisk |-> 50,
   shelterDemand |-> 30, baseScoreNorm |-> Clamp01(baseScore \div 15),
   falseAlarmRate |-> 10, diversionRate |-> 5, historicalAccuracy |-> 70,
   leadTimeNorm |-> 30, underestimationRate |-> 8, overestimationRate |-> 12,
   accuracyTrend |-> 50, updateNo |-> 1, hashes |-> hashes]

\* buildFeatures(alert, ctx)
BuildFeatures(m, a, fresh, baseScore) ==
  DeriveFeatures(DefaultInputs(a, fresh, baseScore,
    HashedFeatures(m, <<a.eventType, a.regionId,
                        IF a.threadKey = NoThread THEN "" ELSE a.threadKey>>)))

\* buildFeaturesFromSample(sample): the sample's alert has no geokey
BuildFeaturesFromSample(m, a, fresh, baseScore) ==
  DeriveFeatures(DefaultInputs(a, fresh, baseScore,
    HashedFeatures(m, <<"hist", a.regionId, "">>)))

\* baseScore(alert) = baseScoreNorm * 0.6 + severityNumeric * 3 + (2 | 0)
BaseScoreOf(a) ==
  900 + SeverityNumeric(a.severity) * 3
  + (IF a.urgency = "Immediate" THEN 200 ELSE 0)

\* train(features, label): for i < weights.length, g2[i] and weights[i] are
\* rewritten in place; weights[i] moves only when features[i] is not 0
TrainOn(m, features) ==
  [m EXCEPT !.g2 = [i \in 1..Len(m.g2) |->
                      IF i <= Len(m.weights) THEN m.g2[i] + 1 ELSE m.g2[i]],
            !.weights = [i \in 1..Len(m.weights) |->
                           IF i <= Len(features) /\ features[i] = 0
                           THEN m.weights[i] ELSE m.weights[i] + 1],
            !.features = features,
            !.trained = @ + 1]

\* the alerts the model is called with: one with region and thread, one
\* with neither
ModelAlerts ==
  {StreamAlert(1, 0),
   Alert("A9", "Flood", "Severe", "Immediate", 0, 120, "", NoThread)}

ModelStrings == {"Flood", "R1", "Flood:R1", "hist"}

\* initial states whose vectors are one shorter than, as long as, or one
\* longer than the model's feature count
InitialStates(option) ==
  LET fc == FeatureCount(HashBucketCount(option))
  IN {NoInitialState}
     \cup {[given |-> TRUE, weights |-> Filled(lw, 5), g2 |-> Filled(lg, 5)] :
            lw \in (fc - 1)..(fc + 1), lg \in (fc - 1)..(fc + 1)}

\* opts.explorationEpsilon: negative, zero and one half
Epsilons == {0 - 50, 0, 50}

InitModel ==
  /\ \E option \in (0 - 1)..MaxBuckets :
       \E init \in InitialStates(option) :
         pfm = WithEpsilon(NewModel(option, init), 0)
  /\ synth = NoSynth
  /\ hashOf \in [ModelStrings -> {3, 4}]
  /\ pol = IdlePolicy
  /\ now = 0
  /\ last = Call("new", NoAlert, 0, IdlePolicy, NoAlert, FALSE, <<>>)
  /\ run = NoRun
  /\ run2 = NoRun
  /\ tape = <<>>
  /\ sk = NoSketch
  /\ batch = NoBatch

\* the values of the first this.rng() of a score call, in hundredths; there
\* is no draw without explore or with an epsilon of 0
FirstDraws(m, explore) ==
  IF explore /\ m.explorationEpsilon > 0 THEN {0, 99} ELSE {0}

\* score(alert, ctx, { explore }): builds the features and predicts;
\* nothing is written but the position of the model's rng
Score(a, fresh, explore, d1) ==
  /\ pfm.rngCalls + ExploreDraws(pfm, explore, d1) <= MaxDraws
  /\ pfm' = [pfm EXCEPT !.features = BuildFeatures(pfm, a, fresh, 0),
                        !.rngCalls = @ + ExploreDraws(pfm, explore, d1)]
  /\ UNCHANGED <<pol, now, last, hashOf, run, run2, tape, sk, batch, synth>>

\* observeRetrieval(alert, outcome)
ModelObserveRetrieval(a, fresh) ==
  /\ pfm.trained < MaxTrain
  /\ pfm' = TrainOn(pfm, BuildFeatures(pfm, a, fresh, BaseScoreOf(a)))
  /\ UNCHANGED <<pol, now, last, hashOf, run, run2, tape, sk, batch, synth>>

\* observeDrop(alert, servedAt)
ModelObserveDrop(a) ==
  /\ pfm.trained < MaxTrain
  /\ pfm' = TrainOn(pfm, BuildFeatures(pfm, a, 0, BaseScoreOf(a)))
  /\ UNCHANGED <<pol, now, last, hashOf, run, run2, tape, sk, batch, synth>>

\* ingestHistoricalSamples([sample])
IngestSample(a, fresh) ==
  /\ pfm.trained < MaxTrain
  /\ pfm' = TrainOn(pfm, BuildFeaturesFromSample(pfm, a, fresh,
                                                 BaseScoreOf(a)))
  /\ UNCHANGED <<pol, now, last, hashOf, run, run2, tape, sk, batch, synth>>

NextModel ==
  \E a \in ModelAlerts, fresh \in {0, 100} :
    \/ \E explore \in BOOLEAN :
         \E d1 \in FirstDraws(pfm, explore) : Score(a, fresh, explore, d1)
    \/ ModelObserveRetrieval(a, fresh)
    \/ ModelObserveDrop(a)
    \/ IngestSample(a, fresh)

SpecModel == InitModel /\ [][NextModel]_vars

\* models constructed with an exploration epsilon, without an initial state
\* or with one of the model's feature count
InitExplore ==
  /\ \E option \in 0..MaxBuckets, epsilon \in Epsilons :
       \E init \in {NoInitialState,
                    [given |-> TRUE,
                     weights |-> Filled(FeatureCount(option), 5),
                     g2 |-> Filled(FeatureCount(option), 5)]} :
         pfm = WithEpsilon(NewModel(option, init), epsilon)
  /\ synth = NoSynth
  /\ hashOf = [s \in ModelStrings |-> 3]
  /\ pol = IdlePolicy
  /\ now = 0
  /\ last = Call("new", NoAlert, 0, IdlePolicy, NoAlert, FALSE, <<>>)
  /\ run = NoRun
  /\ run2 = NoRun
  /\ tape = <<>>
  /\ sk = NoSketch
  /\ batch = NoBatch

SpecExplore == InitExplore /\ [][NextModel]_vars

(***************************************************************************)
(* The thread model of synthAlerts (part_008), on its own: every pass of    *)
(* the loop pushes one alert; the event type, the region and the draws     *)
(* rng() < 0.3, rng() < 0.4 and Math.floor(rng() * 1000) are free.         *)
(***************************************************************************)
MaxStream == 4    \* opts.alerts: alerts pushed by one call

SynthEvents == {"Flood", "Shelter"}

\* Math.floor(rng() * 1000) is one of 0..999
SynthSalts == {7, 8}

\* `${eventType}:${regionId}`
BaseThread(ev, reg) == ev \o ":" \o reg

\* `${eventType}:${regionId}:${Math.floor(rng() * 1000)}`
SaltedThread(ev, reg, salt) == BaseThread(ev, reg) \o ":" \o Decimal(salt)

\* threads.set(key, value)
ThreadsSet(threads, key, value) ==
  [k \in (DOMAIN threads) \cup {key} |-> IF k = key THEN value ELSE threads[k]]

\* threadKey = salted key; threads.set(threadKey, 0)
ThreadOpened(threads, key) == ThreadsSet(threads, key, 0)

\* the thread part of one pass of the loop: r3 is rng() < 0.3, r4 is
\* rng() < 0.4 (drawn only when no update is made)
SynthPass(s, ev, reg, r3, r4, salt) ==
  LET makeUpdate == r3 /\ DOMAIN s.threads # {}
      base == BaseThread(ev, reg)
      t1 == IF base \in DOMAIN s.threads THEN s.threads
            ELSE ThreadsSet(s.threads, base, 0)
      fresh == ~makeUpdate /\ r4
      threadKey == IF fresh THEN SaltedThread(ev, reg, salt) ELSE base
      t2 == IF fresh THEN ThreadOpened(t1, threadKey) ELSE t1
      updateNo == IF fresh THEN 1 ELSE t1[base] + 1
  IN [s EXCEPT !.threads = ThreadsSet(t2, threadKey, updateNo),
               !.alerts = Append(@, [eventType |-> ev, regionId |-> reg,
                                     threadKey |-> threadKey,
                                     updateNo |-> updateNo])]

InitSynth ==
  /\ synth = [kind |-> "synth", alerts |-> <<>>, threads |-> <<>>]
  /\ pfm = NoModel
  /\ hashOf = [k \in PolicyKeys |-> <<0, 0, 0, 0>>]
  /\ pol = IdlePolicy
  /\ now = 0
  /\ last = Call("new", NoAlert, 0, IdlePolicy, NoAlert, FALSE, <<>>)
  /\ run = NoRun
  /\ run2 = NoRun
  /\ tape = <<>>
  /\ sk = NoSketch
  /\ batch = NoBatch

SynthPush ==
  /\ Len(synth.alerts) < MaxStream
  /\ \E ev \in SynthEvents, r3 \in BOOLEAN, r4 \in BOOLEAN,
        salt \in SynthSalts :
       synth' = SynthPass(synth, ev, "R1", r3, r4, salt)
  /\ UNCHANGED <<pol, now, last, hashOf, run, run2, tape, sk, batch, pfm>>

SpecSynth == InitSynth /\ [][SynthPush]_vars

(***************************************************************************)
(* Properties of the policies                                              *)
(***************************************************************************)
\* the alert the calls use for an id
AlertOf(id) == CHOOSE a \in PolicyAlerts : a.id = id

\* the entries of a map that are not expired at time t
Unexpired(m, t) == SelectSeq(m, LAMBDA a : t < a.issuedAt + a.ttlSec)

\* C1: for every policy constructed with capacity C >= 1, size() <= C after
\* every call of any sequence of put / get / has / entries calls
C1_SizeWithinCapacity == PolicySize(pol) <= pol.cap

\* C5: at a time t >= issuedAt + ttlSec, get returns undefined, has returns
\* false, entries does not list the alert, and the call leaves no expired
\* alert in the cache
C5_ExpiredNeverServed ==
  /\ (last.op = "get" /\ last.t >= AlertOf(last.a.id).issuedAt
                                   + AlertOf(last.a.id).ttlSec)
       => last.alert = NoAlert
  /\ (last.op = "has" /\ last.t >= AlertOf(last.a.id).issuedAt
                                   + AlertOf(last.a.id).ttlSec)
       => last.flag = FALSE
  /\ last.op = "entries"
       => \A i \in 1..Len(last.list) :
            last.t < last.list[i].issuedAt + last.list[i].ttlSec
  /\ last.op \in {"get", "has", "entries"}
       => \A i \in 1..Len(pol.map) :
            last.t < pol.map[i].issuedAt + pol.map[i].ttlSec

\* a get at the expiry time or later of an alert that was cached: it returns
\* undefined and the alert has left the cache
C5_Witness ==
  /\ last.op = "get"
  /\ MapHas(last.pre.map, last.a.id)
  /\ last.t >= AlertOf(last.a.id).issuedAt + AlertOf(last.a.id).ttlSec
  /\ last.alert = NoAlert
  /\ ~MapHas(pol.map, last.a.id)

\* C6: after put(a, now) with a unexpired at now and fewer than capacity
\* unexpired entries cached, get(a.id, now) returns a
C6_PutThenGet ==
  (/\ last.op = "put"
   /\ last.t < last.a.issuedAt + last.a.ttlSec
   /\ Len(Unexpired(last.pre.map, last.t)) < last.pre.cap)
    => PolicyGet(pol, last.a.id, last.t).res = last.a

\* such a put into a cache that already holds another alert
C6_Witness ==
  /\ last.op = "put"
  /\ last.t < last.a.issuedAt + last.a.ttlSec
  /\ Len(Unexpired(last.pre.map, last.t)) < last.pre.cap
  /\ Len(Unexpired(last.pre.map, last.t)) >= 1
  /\ ~MapHas(last.pre.map, last.a.id)
  /\ PolicyGet(pol, last.a.id, last.t).res = last.a

\* the last call was a PriorityFresh.put on a full cache (after the purge)
\* whose scores are numbers
PFFullPut ==
  /\ last.op = "put"
  /\ last.pre.name = "PriorityFresh"
  /\ Len(Unexpired(last.pre.map, last.t)) >= last.pre.cap
  /\ ~PFBase(last.pre, last.a, last.t).nan

\* the entries such a put evicted: cached before, unexpired, gone after
PFEvicted ==
  {v \in SeqToSet(Unexpired(last.pre.map, last.t)) : ~MapHas(pol.map, v.id)}

ScoreAt(a) == PFScore(last.pre, a, last.t, NoDraw).v

PAFAtDecision ==
  LET q == PurgeExpired(last.pre, last.t)
  IN [q EXCEPT !.sketch = SketchIncrement(q.sketch, PAFKey(last.a))]

PAFFullPut ==
  /\ last.op = "put"
  /\ last.pre.name = "PAFTinyLFU"
  /\ Len(Unexpired(last.pre.map, last.t)) >= last.pre.cap

C8_RejectReached ==
  /\ PAFFullPut
  /\ SketchEstimate(PAFAtDecision.sketch, PAFKey(last.a))
       < SketchEstimate(PAFAtDecision.sketch, PAFVictim(PAFAtDecision))

(***************************************************************************)
(* Properties of runSimulation                                             *)
(***************************************************************************)
\* C2: in every run, for each policy name and also with wS / wU / wF left
\* unset, every timeline sample has cacheSize <= opts.cacheSize
C2_TimelineWithinCapacity ==
  \A i \in 1..Len(run.timeline) :
    run.timeline[i].cacheSize <= run.opts.cacheSize

\* C3: when runSimulation returns, delivered plus the sum of the per-region
\* dropped counts equals issuedAlerts.length
C3_AllResolvedAtEnd ==
  run.phase = "done"
    => run.delivered + SumDropped(run.regionStats, Regions)
         = Len(run.issuedAlerts)

BothDone == run.phase = "done" /\ run2.phase = "done"

\* the exploration of PriorityForecastModel.score draws from Math.random
UnseededExploration(opts) ==
  /\ opts.policy = "PriorityFresh"
  /\ opts.pfExplorationEpsilon > 0
  /\ opts.pfRandomize

C9_PushesWithinRate ==
  LET R == RateLimitOf(run.opts)
      H == StepsOf(run.opts)
  IN /\ run.pushesSent <= ((H + PushWindowSec - 1) \div PushWindowSec) * R
     /\ R = 0 => run.pushesSent = 0 /\ run.pushSuppressCount = 0

\* a finished run of 63 s with R = 1 that sent two pushes and suppressed one
\* delivery on the rate limit
C9_Witness ==
  /\ run.phase = "done"
  /\ RateLimitOf(run.opts) = 1
  /\ DedupWindowOf(run.opts) = 0
  /\ run.pushesSent = 2
  /\ run.pushSuppressCount = 1

\* C10: with D > 0 two pushes sent for the same thread are more than D
\* apart; with D <= 0 the dedup condition holds at every push decision, so
\* the decision is that of the rate limit and the threshold
C10_DedupWindow ==
  LET D == DedupWindowOf(run.opts)
  IN /\ D > 0 =>
          \A i, j \in 1..Len(run.pushLog) :
            (i < j /\ run.pushLog[i].thread = run.pushLog[j].thread)
              => run.pushLog[j].t - run.pushLog[i].t > D
     /\ (run.opts.pushDedupWindowSec <= 0 /\ run.decision.t # Absent) =>
          /\ run.decision.notDuplicate
          /\ run.decision.pushed =
               (run.decision.withinRate
                  /\ (run.decision.meets \/ run.decision.highImpact))

\* with D > 0, a second push for a thread, sent for a high-impact alert
C10_Witness ==
  /\ DedupWindowOf(run.opts) > 0
  /\ \E i, j \in 1..Len(run.pushLog) :
       /\ i < j
       /\ run.pushLog[i].thread = run.pushLog[j].thread
       /\ run.decision.id = run.pushLog[j].id
       /\ run.decision.highImpact

\* with D > 0, a delivery suppressed by the dedup condition alone
C10_SuppressReached ==
  /\ DedupWindowOf(run.opts) > 0
  /\ run.decision.t # Absent
  /\ run.decision.withinRate
  /\ run.decision.highImpact
  /\ ~run.decision.notDuplicate
  /\ ~run.decision.pushed

(***************************************************************************)
(* Properties of the frequency sketches                                    *)
(***************************************************************************)
NoCounterAtCeiling ==
  \A l \in 1..4 : \A i \in DOMAIN sk.obj.rows[l] :
    sk.obj.rows[l][i] < CeilingOf(sk.obj)

\* C11: with no aging reset and no counter at its ceiling, estimate(k) is at
\* least the number of increment(k) calls made, for every key and every
\* hash assignment
C11_EstimateAtLeastCount ==
  (~sk.aged /\ NoCounterAtCeiling)
    => \A k \in SketchKeys : AnyEstimate(sk.obj, k) >= sk.calls[k]

\* a sketch, not aged and below its ceiling, in which a collision raised the
\* estimate of an incremented key above its count
C11_Witness ==
  /\ ~sk.aged
  /\ NoCounterAtCeiling
  /\ \E k \in SketchKeys :
       sk.calls[k] > 0 /\ AnyEstimate(sk.obj, k) > sk.calls[k]

\* after a reset, or with a counter at the ceiling, the estimate falls below
\* the count
C11_AgedBelowReached ==
  sk.aged /\ \E k \in SketchKeys : AnyEstimate(sk.obj, k) < sk.calls[k]

C11_CappedBelowReached ==
  ~sk.aged /\ \E k \in SketchKeys : AnyEstimate(sk.obj, k) < sk.calls[k]

(***************************************************************************)
(* Properties of the orchestrators                                         *)
(***************************************************************************)
\* C12: runMultiPolicyBatch returns exactly four runs in the order LRU,
\* TTLOnly, PriorityFresh, PAFTinyLFU, each with result.seed equal to
\* opts.seed, and the four runs have the same issuedAlerts
C12_FourRunsSameStream ==
  (batch.kind = "multi" /\ batch.status = "returned") =>
    /\ Len(batch.runs) = 4
    /\ [n \in 1..4 |-> batch.runs[n].policy]
         = <<"LRU", "TTLOnly", "PriorityFresh", "PAFTinyLFU">>
    /\ \A n \in 1..4 :
         /\ batch.runs[n].result.seed = batch.base.seed
         /\ batch.runs[n].result.issuedAlerts
              = batch.runs[1].result.issuedAlerts

\* a returned comparison whose runs issued three alerts each and delivered
\* different numbers of them
C12_Witness ==
  /\ batch.kind = "multi"
  /\ batch.status = "returned"
  /\ Len(batch.runs) = 4
  /\ Len(batch.runs[1].result.issuedAlerts) = 3
  /\ batch.runs[1].result.delivered # batch.runs[4].result.delivered

\* C20: in the comparisons an error raised by one engine run does not
\* terminate the batch: when the orchestrator ends it returns a record with
\* every cell, four runs in each
C20_ErrorStaysInCell ==
  batch.status \in {"returned", "thrown"} =>
    /\ batch.status = "returned"
    /\ Len(batch.comparisons) = Len(batch.cells)
    /\ \A n \in 1..Len(batch.comparisons) :
         Len(batch.comparisons[n].runs) = 4

\* a comparison ended by the exception of its PriorityFresh run, after the
\* LRU and TTLOnly runs and before the PAFTinyLFU run
C20_AbortReached ==
  /\ batch.status = "thrown"
  /\ batch.i = 3
  /\ Len(batch.runs) = 2

\* the seed run number n (from 1) is to use
ExpectedSeed(n) ==
  IF batch.config.seedMode = "Fixed" THEN batch.base.seed
  ELSE batch.base.seed \o "#" \o Decimal(n)

\* C13: runBatch with replicates n >= 1 performs exactly n engine runs in
\* index order; run i uses the base seed in Fixed mode and base # (i + 1)
\* in DeterministicJitter mode, and the other options are passed unchanged
C13_ReplicateSeeds ==
  (/\ batch.kind = "batch"
   /\ batch.config.replicates >= 1
   /\ batch.config.seedMode \in {"Fixed", "DeterministicJitter"})
    => /\ Len(batch.passed) <= batch.config.replicates
       /\ \A n \in 1..Len(batch.passed) :
            batch.passed[n] = [batch.base EXCEPT !.seed = ExpectedSeed(n)]
       /\ \A n \in 1..Len(batch.runs) :
            /\ batch.runs[n].seed = ExpectedSeed(n)
            /\ batch.runs[n].result.seed = ExpectedSeed(n)
       /\ batch.status = "returned" =>
            Len(batch.runs) = batch.config.replicates

\* a returned batch of three runs on the seeds b#1, b#2, b#3
C13_Witness ==
  /\ batch.kind = "batch"
  /\ batch.status = "returned"
  /\ batch.config.replicates = 3
  /\ batch.config.seedMode = "DeterministicJitter"
  /\ Len(batch.runs) = 3
  /\ batch.runs[3].seed = batch.base.seed \o "#3"

\* C14: at the end of a run every ratio metric has its numerator at most
\* its denominator: hits <= hits + misses, delivered <= opts.alerts,
\* staleAccess <= requests, duplicateDelivered <= delivered, the thread
\* counts <= threads, pushSuppressCount <= delivered, pushDuplicates <=
\* pushesSent, timely first pushes <= pushed threads; pushesSent >= 0
C14_RatiosWithinOne ==
  run.phase = "done" =>
    /\ \A m \in RatioNames :
         /\ 0 <= Metrics(run)[m].num
         /\ Metrics(run)[m].num <= Metrics(run)[m].den
    /\ run.hits <= run.hits + run.misses
    /\ run.delivered <= run.opts.alerts
    /\ run.staleAccess <= run.hits + run.misses
    /\ run.duplicateDelivered <= run.delivered
    /\ run.pushSuppressCount <= run.delivered
    /\ run.pushDuplicates <= run.pushesSent
    /\ run.pushesSent >= 0

\* a finished run in which every alert asked for was delivered, one of them
\* a duplicate of its thread, and a query was answered
C14_Witness ==
  /\ run.phase = "done"
  /\ run.delivered = run.opts.alerts
  /\ run.duplicateDelivered > 0
  /\ run.hits > 0
  /\ run.misses > 0

\* a finished run with a push sent, a push suppressed and a repeated push
C14_PushReached ==
  /\ run.phase = "done"
  /\ run.pushesSent > 1
  /\ run.pushDuplicates > 0
  /\ run.pushSuppressCount > 0

\* the phases of a call of runSimulation that has not thrown
RunPhases == {"arrivals", "retries", "poisson", "queries", "sample", "done"}

\* C15: redundancyIndex is in [0, 1): duplicateDelivered < delivered
\* whenever delivered > 0, and the index is 0 when nothing was delivered
C15_RedundancyBelowOne ==
  run.phase \in RunPhases =>
    /\ 0 <= Metrics(run).redundancyIndex.num
    /\ Metrics(run).redundancyIndex.num < Metrics(run).redundancyIndex.den
    /\ run.delivered > 0 => run.duplicateDelivered < run.delivered
    /\ run.delivered = 0 => Metrics(run).redundancyIndex.num = 0

\* a finished run that delivered two alerts of one thread and one of another
C15_Witness ==
  /\ run.phase = "done"
  /\ run.delivered = 3
  /\ run.duplicateDelivered = 1
  /\ run.deliveredByThread["Flood:R1"] = 2

\* a finished run that delivered nothing
C15_NothingDeliveredReached ==
  /\ run.phase = "done"
  /\ run.delivered = 0
  /\ Len(run.issuedAlerts) > 0

\* C16: the timeline holds one sample per simulated second, for t = 0, 1,
\* ..., horizon - 1 in increasing order (its length is the horizon when the
\* run ends), and the cumulative hits and misses never decrease from one
\* sample to the next
C16_OneSamplePerSecond ==
  run.phase \in RunPhases =>
    /\ \A i \in 1..Len(run.timeline) : run.timeline[i].t = i - 1
    /\ \A i \in 1..(Len(run.timeline) - 1) :
         /\ run.timeline[i].hits <= run.timeline[i + 1].hits
         /\ run.timeline[i].misses <= run.timeline[i + 1].misses
    /\ Len(run.timeline) = (IF run.phase = "done" THEN run.opts.durationSec
                            ELSE run.t)

\* a finished run whose samples show the hits and the misses growing
C16_Witness ==
  /\ run.phase = "done"
  /\ Len(run.timeline) = run.opts.durationSec
  /\ run.timeline[1].hits + run.timeline[1].misses = 0
  /\ run.timeline[Len(run.timeline)].hits > 0
  /\ run.timeline[Len(run.timeline)].misses > 0

\* C17: at every step of a run the sum over the regions of
\* regionStats.delivered equals the delivered counter and the length of
\* deliveredAlerts
C17_RegionDeliveredSum ==
  run.phase \in RunPhases =>
    /\ SumDelivered(run.regionStats, Regions) = run.delivered
    /\ run.delivered = Len(run.deliveredAlerts)

\* a run with deliveries in both regions and a dropped alert
C17_Witness ==
  /\ run.phase \in RunPhases
  /\ run.regionStats["R1"].delivered > 0
  /\ run.regionStats["R2"].delivered > 0
  /\ SumDropped(run.regionStats, Regions) > 0

\* options the specification calls invalid
InvalidOptions(opts) ==
  \/ opts.cacheSize < 0
  \/ opts.seed = ""
  \/ opts.scenario \notin {"Rural", "Suburban", "Urban"}
  \/ opts.policy \notin SeqToSet(PolicyNames)

\* C18: runSimulation given invalid options (a negative cacheSize, an empty
\* seed, a scenario or policy name outside the catalogue) returns a
\* configuration error and executes no simulation step, and runBatch given
\* replicates < 1 fails without performing any run
C18_InvalidOptionsRejected ==
  batch.kind = "batch" =>
    /\ batch.config.replicates < 1 =>
         /\ Len(batch.runs) = 0
         /\ batch.status # "returned"
         /\ run.phase \in RunPhases => run.timeline = <<>>
    /\ \A n \in 1..Len(batch.runs) : ~InvalidOptions(batch.passed[n])
    /\ (Len(batch.passed) > 0 /\ run.phase \in RunPhases
          /\ InvalidOptions(batch.passed[Len(batch.passed)]))
         => (run.t = 0 /\ run.timeline = <<>> /\ run.issuedAlerts = <<>>)

\* runBatch with replicates 0 returned one run
C18_ClampedBatchReturned ==
  /\ batch.kind = "batch"
  /\ batch.config.replicates = 0
  /\ batch.status = "returned"
  /\ Len(batch.runs) = 1
  /\ ~InvalidOptions(batch.base)

\* a run on a negative cacheSize returned its results
C18_NegativeCacheReturned ==
  /\ batch.kind = "batch"
  /\ batch.config.replicates = 1
  /\ batch.status = "returned"
  /\ batch.base.cacheSize < 0
  /\ Len(batch.runs[1].result.timeline) = batch.base.durationSec

\* runs on an empty seed, an unknown scenario and an unknown policy returned
C18_EmptySeedReturned ==
  /\ batch.kind = "batch"
  /\ batch.config.replicates = 1
  /\ batch.status = "returned"
  /\ batch.runs[1].seed = ""

C18_UnknownScenarioReturned ==
  /\ batch.kind = "batch"
  /\ batch.config.replicates = 1
  /\ batch.status = "returned"
  /\ batch.base.scenario = "Nowhere"

C18_UnknownPolicyReturned ==
  /\ batch.kind = "batch"
  /\ batch.config.replicates = 1
  /\ batch.status = "returned"
  /\ batch.base.policy = "Bogus"
  /\ batch.runs[1].result.delivered > 0

\* a PAFTinyLFU run on a negative cacheSize ended in the TypeError of put,
\* after the loop had started
C18_NegativeCacheThrown ==
  /\ batch.kind = "batch"
  /\ batch.status = "thrown"
  /\ batch.base.cacheSize < 0
  /\ batch.base.policy = "PAFTinyLFU"

\* C19: constructing a policy with capacity <= 0 is rejected: no policy
\* object with capacity <= 0 ever accepts a put
C19_NoPutOnNonPositive ==
  pol.cap <= 0 => last.op # "put"

\* a PriorityFresh of capacity 0 holds an alert after a put
C19_AlertHeldReached ==
  /\ pol.cap <= 0
  /\ last.op = "put"
  /\ Len(pol.map) > pol.cap
  /\ Len(pol.map) > 0

\* a put on an LRU of capacity -1 returned, leaving the cache empty
C19_EmptyAfterPutReached ==
  /\ pol.cap < 0
  /\ pol.name = "LRU"
  /\ last.op = "put"
  /\ Len(pol.map) = 0

\* a put on a PAFTinyLFU of capacity 0 threw the TypeError of the sketch
C19_PutThrewReached ==
  /\ pol.cap = 0
  /\ pol.name = "PAFTinyLFU"
  /\ last.op = "put throws"

\* sum over the runs of (count * x - sum of the values)^2, which is
\* count^2 times the sum of the squared deviations from the mean; the
\* values are brought to the common denominator den
RECURSIVE ScaledSum(_, _, _)
ScaledSum(vals, den, n) ==
  IF n = 0 THEN 0
  ELSE ScaledSum(vals, den, n - 1) + vals[n].num * (den \div vals[n].den)

RECURSIVE ScaledSquares(_, _, _, _)
ScaledSquares(vals, den, total, n) ==
  IF n = 0 THEN 0
  ELSE LET x == Len(vals) * vals[n].num * (den \div vals[n].den) - total
       IN ScaledSquares(vals, den, total, n - 1) + x * x

\* the least common denominator of the first n values
RECURSIVE CommonDen(_, _)
CommonDen(vals, n) ==
  IF n = 0 THEN 1
  ELSE LET d == CommonDen(vals, n - 1)
       IN (d * vals[n].den) \div Gcd(d, vals[n].den)

\* C21: the stdev of the batch aggregate is >= 0 for every metric key, uses
\* the n - 1 divisor for n >= 2 runs, and is exactly 0 for every key when
\* there is one run
C21_StdevBessel ==
  (batch.kind = "batch" /\ batch.status = "returned") =>
    LET ms == BatchMetrics
        n == Len(batch.runs)
        agg == AggregateMetrics(ms)
    IN \A k \in SeqToSet(MetricKeys) :
         LET sd == agg.stdev[k]
             vals == [i \in 1..n |-> MetricValue(ms[i], k)]
             den == CommonDen(vals, n)
             total == ScaledSum(vals, den, n)
         IN /\ sd.sqrtOf.num >= 0
            /\ sd.sqrtOf.den > 0
            /\ n = 1 => (sd.zero /\ sd.sqrtOf.num = 0)
            /\ n >= 2 =>
                 /\ ~sd.zero
                 /\ sd.sqrtOf.num * (n * n * (n - 1)) * den * den
                      = ScaledSquares(vals, den, total, n) * sd.sqrtOf.den

\* a returned batch of three runs whose delivery rates differ
C21_Witness ==
  /\ batch.kind = "batch"
  /\ batch.status = "returned"
  /\ Len(batch.runs) = 3
  /\ BatchAggregate.stdev["deliveryRate"].sqrtOf.num > 0
  /\ BatchAggregate.stdev["redundancyIndex"].sqrtOf.num > 0
  /\ BatchAggregate.stdev["cacheHitRate"].sqrtOf.num = 0

\* a returned batch of one run
C21_OneRunReached ==
  /\ batch.kind = "batch"
  /\ batch.status = "returned"
  /\ Len(batch.runs) = 1
  /\ batch.runs[1].result.delivered > 0
  /\ BatchAggregate.stdev["deliveryRate"].zero

\* C22: for a PF model built with hash bucket count B, the lengths of
\* weights and g2 and the feature count are 23 + B after construction (also
\* with an initial state whose vectors have another length) and after any
\* calls of score, train, observeRetrieval and observeDrop, and every
\* feature vector built has length 23 + B
C22_VectorLengths ==
  pfm.kind = "pf" =>
    LET B == IF pfm.option < 0 THEN 0 ELSE pfm.option
    IN /\ pfm.hashBucketCount = B
       /\ Len(pfm.weights) = 23 + B
       /\ Len(pfm.g2) = 23 + B
       /\ GetState(pfm).featureCount = 23 + B
       /\ pfm.features # <<>> => Len(pfm.features) = 23 + B

\* a model built with 2 buckets and an initial state whose weights are too
\* long and whose g2 is too short, after two train calls
C22_Witness ==
  /\ pfm.kind = "pf"
  /\ pfm.hashBucketCount = 2
  /\ pfm.init.given
  /\ Len(pfm.init.weights) = 26
  /\ Len(pfm.init.g2) = 24
  /\ pfm.trained = 2
  /\ Len(pfm.features) = 25
  /\ pfm.features[24] + pfm.features[25] > 0

\* a model that kept the vectors of its initial state
C22_InitKeptReached ==
  /\ pfm.kind = "pf"
  /\ pfm.init.given
  /\ pfm.trained = 0
  /\ pfm.weights = pfm.init.weights
  /\ pfm.g2 = pfm.init.g2

\* C23: a PriorityFresh the engine builds from options that leave wS, wU and
\* wF unset scores every cached alert with the weights 2, 3 and 4: the score
\* is a number, the one a policy built with the three defaults computes
C23_DefaultWeightsWhenUnset ==
  (run.phase \notin {"off", "thrown"}
   /\ run.policy.name = "PriorityFresh"
   /\ run.opts.wS = WUndefined /\ run.opts.wU = WUndefined
   /\ run.opts.wF = WUndefined)
    => \A i \in 1..Len(run.policy.map) :
         LET explicit == NewPriorityFresh(run.opts.cacheSize, DefaultWeights,
                                          FALSE)
             score == PFBase(run.policy, run.policy.map[i], run.t)
         IN /\ ~score.nan
            /\ score = PFBase(explicit, run.policy.map[i], run.t)

\* the delivery attempts made for alert id so far, in order
AttemptsOn(r, id) ==
  SelectSeq(r.history, LAMBDA e : e[1] \in {"delivered", "failed"}
                                  /\ e[2] = id)

\* the drops recorded for alert id so far
DropsOf(r, id) ==
  SelectSeq(r.history, LAMBDA e : e[1] = "dropped" /\ e[2] = id)

Running(r) == r.phase \notin {"off", "thrown"}

\* C24: an alert gets at most max(1, floor(deliveryMaxAttempts)) delivery
\* attempts, the one at its arrival included; a retry comes at least
\* max(1, floor(deliveryRetryIntervalSec)) seconds after the attempt before
\* it, never in the same second; with one attempt allowed a failed arrival
\* is dropped at once and never queued
C24_AttemptsBounded ==
  Running(run) =>
    LET maxAttempts == IF run.opts.deliveryMaxAttempts < 1 THEN 1
                       ELSE run.opts.deliveryMaxAttempts
        retryInterval == IF run.opts.deliveryRetryIntervalSec < 1 THEN 1
                         ELSE run.opts.deliveryRetryIntervalSec
    IN /\ \A i \in 1..Len(run.alertStream) :
            LET tries == AttemptsOn(run, run.alertStream[i].id)
            IN /\ Len(tries) <= maxAttempts
               /\ \A j \in 2..Len(tries) :
                    /\ tries[j][3] >= tries[j - 1][3] + retryInterval
                    /\ tries[j][3] > tries[j - 1][3]
               /\ (maxAttempts = 1 /\ tries # <<>> /\ tries[1][1] = "failed")
                    => DropsOf(run, run.alertStream[i].id)
                         = <<<<"dropped", run.alertStream[i].id,
                               tries[1][3]>>>>
       /\ maxAttempts = 1 => run.pending = <<>>

\* an alert whose three allowed attempts were made 59 s apart and failed
C24_Witness ==
  /\ Running(run)
  /\ run.opts.deliveryMaxAttempts = 3
  /\ Len(AttemptsOn(run, "A1")) = 3
  /\ AttemptsOn(run, "A1")[3] = <<"failed", "A1", 119>>
  /\ DropsOf(run, "A1") = <<<<"dropped", "A1", 119>>>>

\* a failed arrival dropped at once in a run that allows one attempt
C24_DroppedAtOnceReached ==
  /\ Running(run)
  /\ run.opts.deliveryMaxAttempts = 1
  /\ \E i \in 1..Len(run.history) : run.history[i][1] = "dropped"

\* a retry made two seconds after a failed arrival and delivered
C24_RetryDeliveredReached ==
  /\ Running(run)
  /\ run.opts.deliveryRetryIntervalSec = 2
  /\ \E i \in 1..Len(run.alertStream) :
       LET tries == AttemptsOn(run, run.alertStream[i].id)
       IN Len(tries) = 2 /\ tries[2][1] = "delivered"
                         /\ tries[2][3] = tries[1][3] + 2

\* the alert of the stream with this id
StreamAlertOf(r, id) ==
  r.alertStream[CHOOSE i \in 1..Len(r.alertStream) :
                  r.alertStream[i].id = id]

\* C25: no delivery attempt is made for an alert at t >= issuedAt + ttlSec:
\* the first retry scan at such a t removes a pending alert and records it
\* as exactly one drop in its region; no alert enters the cache when it is
\* already expired
C25_NoAttemptAfterTtl ==
  Running(run) =>
    /\ \A i \in 1..Len(run.history) :
         LET e == run.history[i]
             a == StreamAlertOf(run, e[2])
         IN e[1] \in {"delivered", "failed"}
              => e[3] < a.issuedAt + a.ttlSec
    /\ run.phase \in {"poisson", "queries", "sample"}
         => \A i \in 1..Len(run.pending) :
              run.t < run.pending[i].alert.issuedAt
                        + run.pending[i].alert.ttlSec
    /\ \A i \in 1..Len(run.alertStream) :
         LET a == run.alertStream[i]
             drops == DropsOf(run, a.id)
         IN /\ Len(drops) <= 1
            /\ (drops # <<>> /\ drops[1][3] >= a.issuedAt + a.ttlSec)
                 => /\ drops[1][3] = a.issuedAt + a.ttlSec
                    /\ \A j \in 1..Len(run.pending) :
                         run.pending[j].alert.id # a.id
    /\ \A g \in Regions :
         run.regionStats[g].dropped
           = Cardinality({i \in 1..Len(run.history) :
                            /\ run.history[i][1] = "dropped"
                            /\ StreamAlertOf(run, run.history[i][2]).regionId
                                 = g})

\* an alert whose retry fell due exactly at issuedAt + ttlSec: it was dropped
\* there, after its one attempt at the arrival
C25_Witness ==
  /\ Running(run)
  /\ run.opts.deliveryRetryIntervalSec = 120
  /\ run.history = <<<<"failed", "A1", 1>>, <<"dropped", "A1", 121>>>>
  /\ run.regionStats["R1"].dropped = 1
  /\ run.pending = <<>>

\* an alert retried one second before the end of its ttl, then dropped at
\* the end of the ttl with attempts left
C25_LastSecondReached ==
  /\ Running(run)
  /\ run.opts.deliveryMaxAttempts = 3
  /\ run.history = <<<<"failed", "A1", 1>>, <<"failed", "A1", 120>>,
                     <<"dropped", "A1", 121>>>>

\* the pushes sent before the last push decision was taken
PushesBefore(r) ==
  IF r.decision.pushed THEN SubSeq(r.pushLog, 1, Len(r.pushLog) - 1)
  ELSE r.pushLog

\* C26: at a delivery at time t with R > 0, within_rate holds exactly when
\* fewer than R pushes were sent at times in (t - 60, t]; a push sent at
\* exactly t - 60 does not count
C26_WindowHalfOpen ==
  (Running(run) /\ run.opts.pushRateLimitPerMin > 0
   /\ run.decision # NoDecision)
    => LET t == run.decision.t
           before == PushesBefore(run)
           inWindow == {i \in 1..Len(before) :
                          before[i].t > t - 60 /\ before[i].t <= t}
       IN run.decision.withinRate
            <=> Cardinality(inWindow) < run.opts.pushRateLimitPerMin

\* the step made a delivery attempt that failed
FailedAttempt ==
  /\ Running(run) /\ Running(run')
  /\ Len(run'.history) > Len(run.history)
  /\ run'.history[Len(run.history) + 1][1] = "failed"

\* C27: with R > 0 every successful delivery increments exactly one of
\* pushesSent and pushSuppressCount, so that their sum is delivered after
\* every step; a failed attempt changes neither counter, nor the push window,
\* nor the per-thread push times
C27_PushOrSuppress ==
  /\ [](Running(run) /\ run.opts.pushRateLimitPerMin > 0
          => run.pushesSent + run.pushSuppressCount = run.delivered)
  /\ [][(Running(run) /\ Running(run') /\ run'.delivered = run.delivered + 1
         /\ run.opts.pushRateLimitPerMin > 0)
          => \/ /\ run'.pushesSent = run.pushesSent + 1
                /\ run'.pushSuppressCount = run.pushSuppressCount
             \/ /\ run'.pushesSent = run.pushesSent
                /\ run'.pushSuppressCount = run.pushSuppressCount + 1]_vars
  /\ [][FailedAttempt
          => /\ run'.pushesSent = run.pushesSent
             /\ run'.pushSuppressCount = run.pushSuppressCount
             /\ run'.pushTimes = run.pushTimes
             /\ run'.lastPushByThread = run.lastPushByThread
             /\ run'.firstPushTimeByThread = run.firstPushTimeByThread]_vars

\* a run with a rate limit in which one delivery was pushed, one was
\* suppressed and one attempt failed after the push
C27_Witness ==
  /\ Running(run)
  /\ run.opts.pushRateLimitPerMin > 0
  /\ run.pushesSent = 1
  /\ run.pushSuppressCount = 1
  /\ run.delivered = 2
  /\ run.history[Len(run.history)][1] = "dropped"
  /\ run.history[Len(run.history) - 1][1] = "failed"
  /\ run.pushTimes # <<>>

\* the score the put computes for a resident: a number, or NaN
ScoreOfResident(a) == PFScore(last.pre, a, last.t, NoDraw)

\* the residents at the scan of the last put, expired entries purged
ResidentsAtPut == Unexpired(last.pre.map, last.t)

\* the last call was a put on a PriorityFresh that was full after the purge
PFPutOnFull ==
  /\ last.op = "put"
  /\ last.pre.name = "PriorityFresh"
  /\ Len(ResidentsAtPut) >= last.pre.cap

\* w is the earliest-inserted of the residents that no resident scores below
EarliestMinimal(w) ==
  /\ \A j \in 1..Len(ResidentsAtPut) :
       ~JsLess(ScoreOfResident(ResidentsAtPut[j]),
               ScoreOfResident(ResidentsAtPut[w]))
  /\ \A j \in 1..(w - 1) :
       JsLess(ScoreOfResident(ResidentsAtPut[w]),
              ScoreOfResident(ResidentsAtPut[j]))

\* C28: PriorityFresh.put on a full cache (expired entries purged) removes
\* exactly one resident, one whose score at now is minimal among the
\* residents and, among those, the earliest inserted; the new alert is then
\* inserted
C28_EvictsEarliestMinimal ==
  PFPutOnFull =>
    \E w \in 1..Len(ResidentsAtPut) :
      /\ EarliestMinimal(w)
      /\ pol.map = MapSet(RemoveAt(ResidentsAtPut, w), last.a)

\* the same for a policy whose weights are numbers
PFNumericWeights ==
  /\ last.pre.w.wS.tag = "num"
  /\ last.pre.w.wU.tag = "num"
  /\ last.pre.w.wF.tag = "num"

EvictsEarliestMinimalWhenNumeric ==
  PFNumericWeights => C28_EvictsEarliestMinimal

\* a put on a full cache of two residents with equal scores
TiedPutReached ==
  /\ PFPutOnFull
  /\ PFNumericWeights
  /\ Len(ResidentsAtPut) = 2
  /\ ScoreOfResident(ResidentsAtPut[1]) = ScoreOfResident(ResidentsAtPut[2])

\* the recency list before the last call without the ids expired at its time
RecencyAtCall ==
  SelectSeq(last.pre.order, LAMBDA id : ~IsExpired(AlertOf(id), last.t))

\* the list without id
Without(order, id) == SelectSeq(order, LAMBDA x : x # id)

\* C29: the recency list of an LRU holds exactly the cached ids, each once;
\* a get that hits makes its id the most recently used and keeps the order of
\* the others; a put makes its id the most recently used and, on overflow,
\* evicts from the least recently used end: the resident whose last put or
\* hitting get is oldest
C29_LRUEvictsLeastRecent ==
  pol.name = "LRU" =>
    /\ Len(pol.order) = Len(pol.map)
    /\ SeqToSet(pol.order) = SeqToSet(Ids(pol.map))
    /\ (last.op = "get" /\ last.alert # NoAlert) \/ (last.op = "has" /\ last.flag)
         => pol.order = Append(Without(RecencyAtCall, last.a.id), last.a.id)
    /\ (last.op = "get" /\ last.alert = NoAlert)
         \/ (last.op = "has" /\ ~last.flag)
         => pol.order = RecencyAtCall
    /\ last.op = "put"
         => LET used == Append(Without(RecencyAtCall, last.a.id), last.a.id)
                over == IF Len(used) > pol.cap THEN Len(used) - pol.cap ELSE 0
            IN /\ pol.order = SubSeq(used, over + 1, Len(used))
               /\ \A i \in 1..over : ~MapHas(pol.map, used[i])

\* a put into a full LRU of two whose older resident was used again after
\* the other was put: the resident put later, and not used since, was evicted
C29_Witness ==
  /\ pol.name = "LRU"
  /\ pol.cap = 2
  /\ last.op = "put"
  /\ Len(RecencyAtCall) = 2
  /\ last.a.id \notin SeqToSet(RecencyAtCall)
  /\ Ids(Unexpired(last.pre.map, last.t))
       = <<RecencyAtCall[2], RecencyAtCall[1]>>
  /\ ~MapHas(pol.map, RecencyAtCall[1])
  /\ MapHas(pol.map, RecencyAtCall[2])

\* the residents of the cache after the last put's set, in the order of
\* their insertion (the iteration order of the Map): expired entries purged,
\* the alert put added at the end unless its id is cached
InsertedAtPut == MapSet(Unexpired(last.pre.map, last.t), last.a)

\* C30: TTLOnly.put on overflow evicts the resident with the oldest
\* insertion time, whatever was read, for any sequence of puts, re-puts of a
\* cached or of an evicted id included; the alert just put is never evicted
\* while an older resident remains
C30_TTLEvictsOldestInserted ==
  (last.op = "put" /\ last.pre.name = "TTLOnly") =>
    /\ \A i \in 1..Len(InsertedAtPut) : \A j \in 1..(i - 1) :
         MapHas(pol.map, InsertedAtPut[j].id)
           => MapHas(pol.map, InsertedAtPut[i].id)
    /\ pol.map # <<>> => MapHas(pol.map, last.a.id)

\* the last put found the PAFTinyLFU cache full and the candidate's estimate
\* below the victim's
PAFRejectedPut ==
  /\ PAFFullPut
  /\ SketchEstimate(PAFAtDecision.sketch, PAFKey(last.a))
       < PAFEstimateFor(PAFAtDecision, PAFVictim(PAFAtDecision))

\* the counters of s2 are those of s1 but for the four of key, one greater
OnlyKeyCounted(s1, s2, key) ==
  \A l \in 1..4 : \A i \in DOMAIN s1[l] :
    s2[l][i] = IF i = hashOf[key][l] THEN (s1[l][i] + 1) % Uint16
               ELSE s1[l][i]

\* C31: a put that PAFTinyLFU rejects leaves the cached alerts and their
\* recency order as the expiry purge left them and size() as it was; it
\* changes only the sketch counters of the candidate's key
C31_RejectedPutKeepsCache ==
  PAFRejectedPut =>
    /\ pol.map = Unexpired(last.pre.map, last.t)
    /\ pol.order = RecencyAtCall
    /\ PolicySize(pol) = Len(Unexpired(last.pre.map, last.t))
    /\ pol.cap = last.pre.cap
    /\ OnlyKeyCounted(last.pre.sketch, pol.sketch, PAFKey(last.a))

\* a rejected put of an alert that is not cached: the resident stays, the
\* candidate is absent and its key was counted
C31_Witness ==
  /\ PAFRejectedPut
  /\ Len(pol.map) = 1
  /\ ~MapHas(pol.map, last.a.id)
  /\ SketchEstimate(pol.sketch, PAFKey(last.a))
       = SketchEstimate(last.pre.sketch, PAFKey(last.a)) + 1

\* a rejected put whose candidate key shares no counter with the resident
C31_ApartReached ==
  /\ PAFRejectedPut
  /\ \A l \in 1..4 : hashOf[PAFKey(last.a)][l] # hashOf[pol.map[1].id][l]

\* the (at most 8) oldest residents by insertion, at the decision of the
\* last put: the first entries of the Map
OldestInserted ==
  SubSeq(Ids(PAFAtDecision.map), 1,
         Min2(PAFSampleSize, Len(PAFAtDecision.map)))

\* the one of them with the smallest estimate, the oldest on ties
InsertionVictim ==
  LET est(i) == SketchEstimate(PAFAtDecision.sketch, OldestInserted[i])
      w == CHOOSE i \in 1..Len(OldestInserted) :
             /\ \A j \in 1..Len(OldestInserted) : est(i) <= est(j)
             /\ \A j \in 1..(i - 1) : est(j) > est(i)
  IN OldestInserted[w]

\* C32: when PAFTinyLFU.put finds the cache full, the victim is the entry
\* with the smallest estimate among the (at most 8) oldest entries by
\* insertion order, the oldest of them on ties, whatever get calls were made
\* on the residents: a resident the put evicts is that entry
C32_VictimAmongOldestInserted ==
  PAFFullPut =>
    \A i \in 1..Len(PAFAtDecision.map) :
      ~MapHas(pol.map, PAFAtDecision.map[i].id)
        => PAFAtDecision.map[i].id = InsertionVictim

\* the step is an increment of the aging sketch in which reset() ran: size
\* is back at 0
ResetRan ==
  /\ sk.obj.kind = "aging"
  /\ sk' # sk
  /\ sk'.obj.size = 0

\* C33: in the aging sketch a reset happens only when the number of
\* increments since the last reset exceeds the sample size; it replaces
\* every counter c by floor(c / 2) and sets the count back to 0; no counter
\* exceeds the ceiling 15
C33_ResetWhenSampleExceeded ==
  /\ [][ResetRan =>
          /\ sk.obj.size + 1 > sk.obj.sampleSize
          /\ \A l \in 1..4 : \A i \in DOMAIN sk.obj.rows[l] :
               \/ sk'.obj.rows[l][i] = sk.obj.rows[l][i] \div 2
               \/ sk'.obj.rows[l][i] = (sk.obj.rows[l][i] + 1) \div 2]_vars
  /\ [](sk.obj.kind = "aging"
          => \A l \in 1..4 : \A i \in DOMAIN sk.obj.rows[l] :
               sk.obj.rows[l][i] <= 15)

\* C34: in the synthesized stream the alerts of one threadKey carry updateNo
\* values that are positive and strictly increasing in issue order; no two
\* alerts of a thread have the same updateNo, threads opened with a salt
\* included
C34_UpdateNoIncreasing ==
  synth.kind = "synth" =>
    \A j \in 1..Len(synth.alerts) :
      /\ synth.alerts[j].updateNo >= 1
      /\ \A i \in 1..(j - 1) :
           synth.alerts[i].threadKey = synth.alerts[j].threadKey
             => synth.alerts[i].updateNo < synth.alerts[j].updateNo

\* a stream in which a salt was drawn twice for one event type and region
SaltDrawnTwiceReached ==
  /\ synth.kind = "synth"
  /\ \E i, j \in 1..Len(synth.alerts) :
       /\ i < j
       /\ synth.alerts[i].threadKey = "Flood:R1:7"
       /\ synth.alerts[j].threadKey = "Flood:R1:7"
       /\ synth.alerts[i].updateNo = 1
       /\ synth.alerts[j].updateNo = 1

\* a stream whose base thread received three updates
ThreeUpdatesReached ==
  /\ synth.kind = "synth"
  /\ "Flood:R1" \in DOMAIN synth.threads
  /\ synth.threads["Flood:R1"] = 3

\* the deliveries recorded for alert id so far
DeliveriesOf(r, id) ==
  SelectSeq(r.history, LAMBDA e : e[1] = "delivered" /\ e[2] = id)

\* C35: an issued alert is delivered (counted in delivered and put in the
\* policy) at most once and counted as dropped at most once, never both; an
\* alert is in the pending list at most once, and only while it is neither
\* delivered nor dropped
C35_DeliveredOrDroppedOnce ==
  Running(run) =>
    /\ \A i \in 1..Len(run.alertStream) :
         LET id == run.alertStream[i].id
         IN Len(DeliveriesOf(run, id)) + Len(DropsOf(run, id)) <= 1
    /\ run.delivered
         = Len(SelectSeq(run.history, LAMBDA e : e[1] = "delivered"))
    /\ Len(run.deliveredAlerts) = run.delivered
    /\ \A j \in 1..Len(run.pending) :
         LET id == run.pending[j].alert.id
         IN /\ DeliveriesOf(run, id) = <<>>
            /\ DropsOf(run, id) = <<>>
            /\ \A k \in 1..Len(run.pending) :
                 run.pending[k].alert.id = id => k = j

\* an alert delivered by a retry and taken off the pending list while
\* another alert is still pending
C35_Witness ==
  /\ Running(run)
  /\ \E i \in 1..Len(run.alertStream) :
       LET tries == AttemptsOn(run, run.alertStream[i].id)
       IN /\ Len(tries) >= 2
          /\ tries[Len(tries)][1] = "delivered"
          /\ run.delivered >= 1
  /\ Len(run.pending) >= 1

\* an alert dropped after its retries and taken off the pending list
C35_DroppedReached ==
  /\ Running(run)
  /\ \E i \in 1..Len(run.alertStream) :
       LET id == run.alertStream[i].id
       IN /\ Len(AttemptsOn(run, id)) >= 2
          /\ Len(DropsOf(run, id)) = 1
          /\ \A j \in 1..Len(run.pending) : run.pending[j].alert.id # id

\* a step of the query loop that counts a miss
MissCounted == Running(run) /\ Running(run') /\ run'.misses > run.misses

\* C36: the query step counts a miss only when policy.entries(t) is empty:
\* under each of the four policies the alert biasedPick selects at t is
\* returned by policy.get(id, t) in the same step, so no miss (and no
\* observeDrop) follows a selection
C36_MissOnlyWhenEmpty ==
  [][MissCounted =>
       /\ PolicyEntries(run.policy, run.t).res = <<>>
       /\ run'.pf = run.pf]_vars

\* every alert entries(t) returns is returned by get at the same t
SelectedIsReturned ==
  Running(run) =>
    LET e == PolicyEntries(run.policy, run.t)
    IN \A i \in 1..Len(e.res) :
         PolicyGet(e.pol, e.res[i].id, run.t).res = e.res[i]

\* a run under policy pn that answered one query from the cache and counted
\* a miss on the emptied cache after the end of the alert's ttl
HitThenMissUnder(pn) ==
  /\ Running(run)
  /\ run.opts.policy = pn
  /\ run.hits = 1
  /\ run.misses = 1
  /\ run.delivered = 1
  /\ run.t >= 121

C36_Witness == HitThenMissUnder("PAFTinyLFU")

C36_LRUReached == HitThenMissUnder("LRU")

C36_TTLOnlyReached == HitThenMissUnder("TTLOnly")

C36_PriorityFreshReached == HitThenMissUnder("PriorityFresh")

\* a query answered from a cache of two alerts
C36_PickAmongTwoReached ==
  /\ Running(run)
  /\ run.phase = "queries"
  /\ Len(PolicyEntries(run.policy, run.t).res) = 2
  /\ run.hits = 1

\* C37: no query hit returns an alert at a time t >= issuedAt + ttlSec;
\* staleAccess is never incremented and staleAccessRate is 0, in every run
\* and under every policy
C37_NoStaleHit ==
  Running(run) =>
    /\ run.staleAccess = 0
    /\ MetricsOf(run, run.opts).staleAccessRate.num = 0
    /\ run.lastHit # NoHit =>
         LET a == StreamAlertOf(run, run.lastHit.id)
         IN /\ run.lastHit.t < a.issuedAt + a.ttlSec
            /\ ~FreshnessIsZero(a, run.lastHit.t)

\* a hit in the last second of the alert's ttl, and a query after it
C37_Witness ==
  /\ Running(run)
  /\ run.lastHit = [id |-> "A1", t |-> 120]
  /\ StreamAlertOf(run, "A1").issuedAt = 1
  /\ StreamAlertOf(run, "A1").ttlSec = 120
  /\ run.misses = 1

\* urgency Immediate, or severity Extreme or Severe
IsHighImpact(a) ==
  a.urgency = "Immediate" \/ a.severity \in {"Extreme", "Severe"}

\* C38: under LRU, TTLOnly and PAFTinyLFU (no PF model, probability 0),
\* with pushThreshold > 0 every pushed alert is high-impact; with
\* pushThreshold = 0 every delivery that is within the rate limit and not a
\* duplicate is pushed, whatever its severity
C38_PushWithoutModel ==
  (Running(run) /\ run.opts.policy \in {"LRU", "TTLOnly", "PAFTinyLFU"}) =>
    /\ run.opts.pushThreshold > 0 =>
         \A i \in 1..Len(run.pushLog) :
           IsHighImpact(StreamAlertOf(run, run.pushLog[i].id))
    /\ (run.opts.pushThreshold = 0 /\ run.decision.t # Absent
        /\ run.decision.withinRate /\ run.decision.notDuplicate) =>
         /\ run.decision.pushed
         /\ run.pushLog # <<>>
         /\ run.pushLog[Len(run.pushLog)].id = run.decision.id
         /\ run.pushLog[Len(run.pushLog)].t = run.decision.t

\* under policy pn and a positive threshold, a high-impact alert was pushed
\* after a delivery of another alert was suppressed within the rate limit
\* and outside the dedup window
SuppressedThenPushedUnder(pn) ==
  /\ Running(run)
  /\ run.opts.policy = pn
  /\ run.opts.pushThreshold > 0
  /\ run.pushSuppressCount >= 1
  /\ Len(run.pushLog) = 1
  /\ run.pushLog[1].id = "A2"
  /\ run.opts.pushDedupWindowSec = 0
  /\ "A1" \in {run.deliveredAlerts[i] : i \in 1..Len(run.deliveredAlerts)}

C38_Witness == SuppressedThenPushedUnder("PAFTinyLFU")

C38_TTLOnlyReached == SuppressedThenPushedUnder("TTLOnly")

C38_LRUReached == SuppressedThenPushedUnder("LRU")

\* under a threshold of 0, an alert that is not high-impact was pushed
C38_LowImpactPushedReached ==
  /\ Running(run)
  /\ run.opts.policy \in {"TTLOnly", "PAFTinyLFU"}
  /\ run.opts.pushThreshold = 0
  /\ \E i \in 1..Len(run.pushLog) :
       ~IsHighImpact(StreamAlertOf(run, run.pushLog[i].id))

\* the estimate of the resident id under the key its own put incremented:
\* its threadKey when it has one, otherwise its id
EstimateUnderPutKey(q, id) ==
  SketchEstimate(q.sketch, PAFKey(MapGet(q.map, id)))

\* C39: when PAFTinyLFU.put finds the cache full, the estimate it uses for
\* a resident, in choosing the victim and in the comparison with the
\* candidate, is the estimate under the key the resident's own put
\* incremented (threadKey when present, otherwise id)
C39_ResidentReadUnderPutKey ==
  (PAFFullPut /\ PAFAtDecision.order # <<>>) =>
    \A i \in 1..Len(PAFSample(PAFAtDecision)) :
      PAFEstimateFor(PAFAtDecision, PAFSample(PAFAtDecision)[i])
        = EstimateUnderPutKey(PAFAtDecision, PAFSample(PAFAtDecision)[i])

\* a full put that admitted its candidate though the candidate's estimate
\* is below the victim's estimate under the victim's thread key
AdmittedBelowThreadEstimate ==
  /\ PAFFullPut
  /\ PAFAtDecision.order # <<>>
  /\ MapHas(pol.map, last.a.id)
  /\ ~MapHas(last.pre.map, last.a.id)
  /\ SketchEstimate(PAFAtDecision.sketch, PAFKey(last.a))
       < EstimateUnderPutKey(PAFAtDecision, PAFVictim(PAFAtDecision))

\* the step is a call of score without explore
ScoredPlainly ==
  \E a \in ModelAlerts, fresh \in {0, 100}, d1 \in {0, 99} :
    Score(a, fresh, FALSE, d1)

\* the step is a call of score with explore set
ScoredExploring ==
  \E a \in ModelAlerts, fresh \in {0, 100}, d1 \in {0, 99} :
    Score(a, fresh, TRUE, d1)

\* the step is one call of train, through observeRetrieval, observeDrop or
\* ingestHistoricalSamples
Trained ==
  \E a \in ModelAlerts, fresh \in {0, 100} :
    \/ ModelObserveRetrieval(a, fresh)
    \/ ModelObserveDrop(a)
    \/ IngestSample(a, fresh)

\* C40: PriorityForecastModel.score without explore leaves weights, g2 and
\* the position of the model's rng as they were; weights and g2 change only
\* through train (observeRetrieval, observeDrop, ingestHistoricalSamples);
\* the model's rng is consumed only by score calls with explore set and a
\* positive epsilon
C40_ScoreIsPure ==
  [][/\ \/ /\ pfm'.weights = pfm.weights
              /\ pfm'.g2 = pfm.g2
              /\ pfm'.rngCalls = pfm.rngCalls
           \/ ~ScoredPlainly
     /\ \/ pfm'.weights = pfm.weights /\ pfm'.g2 = pfm.g2
        \/ Trained
     /\ \/ pfm'.rngCalls = pfm.rngCalls
        \/ pfm.explorationEpsilon > 0 /\ ScoredExploring]_vars

\* a model with a positive epsilon that was scored without explore and
\* nothing else: no train call, no draw, the vectors as constructed
C40_Witness ==
  /\ pfm.kind = "pf"
  /\ pfm.explorationEpsilon > 0
  /\ pfm.features # <<>>
  /\ pfm.trained = 0
  /\ pfm.rngCalls = 0
  /\ pfm.init.given
  /\ pfm.weights = pfm.init.weights
  /\ pfm.g2 = pfm.init.g2

\* a model that was trained and whose exploring score calls drew twice
C40_ExploredReached ==
  /\ pfm.kind = "pf"
  /\ pfm.trained = MaxTrain
  /\ pfm.rngCalls = 2

\* exploring score calls on a model with epsilon 0 drew nothing
C40_ClampedEpsilonReached ==
  /\ pfm.kind = "pf"
  /\ pfm.option = 1
  /\ ~pfm.init.given
  /\ pfm.explorationEpsilon = 0
  /\ pfm.features # <<>>

====
